---- MODULE Spec2Model ----
(***************************************************************************)
(* claude-warden: the parse + evaluate pipeline of the command safety      *)
(* filter.  A command string is a sequence of one-character strings.  The  *)
(* shell parser (parseCommand / walkNode / convertCommand) and the         *)
(* built-in configuration (DEFAULT_CONFIG) are translated from the source; *)
(* the layered evaluator, the pipeline combiner and the configuration      *)
(* merge follow the written specification of the repository.               *)
(***************************************************************************)
EXTENDS Integers, Sequences, FiniteSets, TLC

VARIABLES pc, input, sources, config, parsed, details, final, calls

vars == <<pc, input, sources, config, parsed, details, final, calls>>

(***************************************************************************)
(* Text                                                                    *)
(***************************************************************************)

Lower == {"a","b","c","d","e","f","g","h","i","j","k","l","m",
          "n","o","p","q","r","s","t","u","v","w","x","y","z"}

Upper == {"A","B","C","D","E","F","G","H","I","J","K","L","M",
          "N","O","P","Q","R","S","T","U","V","W","X","Y","Z"}

Digit == {"0","1","2","3","4","5","6","7","8","9"}

\* \w of a JavaScript regular expression
WordChar == Lower \cup Upper \cup Digit \cup {"_"}

\* \s of a JavaScript regular expression (the characters the inputs use)
SpaceChar == {" ", "\t", "\n"}

Min(S) == CHOOSE x \in S : \A y \in S : x <= y

Max(S) == CHOOSE x \in S : \A y \in S : y <= x

\* s.slice(a - 1, b): the characters a..b of s (1-based, inclusive)
Slice(s, a, b) == IF a > b THEN << >> ELSE SubSeq(s, a, b)

\* s.includes(c)
Includes(s, c) == \E i \in 1..Len(s) : s[i] = c

\* s.trim()
Trim(s) ==
  LET keep == {i \in 1..Len(s) : s[i] \notin SpaceChar}
  IN  IF keep = {} THEN << >> ELSE SubSeq(s, Min(keep), Max(keep))

\* parts.join(' ')
RECURSIVE Join(_)
Join(parts) ==
  IF parts = << >> THEN << >>
  ELSE IF Len(parts) = 1 THEN parts[1]
  ELSE parts[1] \o <<" ">> \o Join(Tail(parts))

\* input.split('\n')[0]
FirstLine(s) ==
  LET nl == {i \in 1..Len(s) : s[i] = "\n"}
  IN  IF nl = {} THEN s ELSE Slice(s, 1, Min(nl) - 1)

(***************************************************************************)
(* Regular expressions, as the syntax trees of the patterns of the source. *)
(* Ends(r, s, i) is the set of positions j such that r matches s[i..j-1].  *)
(***************************************************************************)

RChr(c) == [op |-> "chr", c |-> c]

RSet(S) == [op |-> "set", s |-> S]

RNotSet(S) == [op |-> "nset", s |-> S]

RSeq(a, b) == [op |-> "seq", a |-> a, b |-> b]

RAlt(a, b) == [op |-> "alt", a |-> a, b |-> b]

RStar(a) == [op |-> "star", a |-> a]

REmpty == [op |-> "empty"]

RBol == [op |-> "bol"]

REol == [op |-> "eol"]

RWordB == [op |-> "wordb"]

\* . matches any character but a line terminator
RDot == RNotSet({"\n"})

RPlus(a) == RSeq(a, RStar(a))

ROpt(a) == RAlt(a, REmpty)

RECURSIVE RCat(_)
RCat(rs) == IF rs = << >> THEN REmpty
            ELSE IF Len(rs) = 1 THEN rs[1]
            ELSE RSeq(rs[1], RCat(Tail(rs)))

RECURSIVE RAny(_)
RAny(rs) == IF Len(rs) = 1 THEN rs[1] ELSE RAlt(rs[1], RAny(Tail(rs)))

\* the literal string w
RECURSIVE RLit(_)
RLit(w) == IF w = << >> THEN REmpty
           ELSE IF Len(w) = 1 THEN RChr(w[1])
           ELSE RSeq(RChr(w[1]), RLit(Tail(w)))

IsWordAt(s, i) == i >= 1 /\ i <= Len(s) /\ s[i] \in WordChar

RECURSIVE Ends(_, _, _)
RECURSIVE StarEnds(_, _, _, _)
Ends(r, s, i) ==
  CASE r.op = "chr"   -> IF i <= Len(s) /\ s[i] = r.c THEN {i + 1} ELSE {}
    [] r.op = "set"   -> IF i <= Len(s) /\ s[i] \in r.s THEN {i + 1} ELSE {}
    [] r.op = "nset"  -> IF i <= Len(s) /\ s[i] \notin r.s THEN {i + 1} ELSE {}
    [] r.op = "seq"   -> UNION {Ends(r.b, s, j) : j \in Ends(r.a, s, i)}
    [] r.op = "alt"   -> Ends(r.a, s, i) \cup Ends(r.b, s, i)
    [] r.op = "star"  -> StarEnds(r.a, s, {i}, {i})
    [] r.op = "empty" -> {i}
    [] r.op = "bol"   -> IF i = 1 THEN {i} ELSE {}
    [] r.op = "eol"   -> IF i = Len(s) + 1 THEN {i} ELSE {}
    [] r.op = "wordb" -> IF IsWordAt(s, i - 1) # IsWordAt(s, i) THEN {i} ELSE {}

StarEnds(a, s, frontier, seen) ==
  LET new == UNION {Ends(a, s, j) : j \in frontier} \ seen
  IN  IF new = {} THEN seen ELSE StarEnds(a, s, new, seen \cup new)

\* the positions at which a match of r starts
MatchStarts(r, s) == {i \in 1..(Len(s) + 1) : Ends(r, s, i) # {}}

\* new RegExp(r).test(s)
RegexTest(r, s) == MatchStarts(r, s) # {}

(***************************************************************************)
(* Library functions the parser calls                                      *)
(***************************************************************************)

\* path.basename(p): the last portion of p, trailing separators ignored
Basename(p) ==
  LET nonSep == {i \in 1..Len(p) : p[i] # "/"}
  IN  IF nonSep = {} THEN << >>
      ELSE LET end   == Max(nonSep)
               seps  == {i \in 1..end : p[i] = "/"}
               start == IF seps = {} THEN 1 ELSE Max(seps) + 1
           IN  SubSeq(p, start, end)

Quote == {"'", "\""}

\* <<-?\s*['"]?\w+['"]?
HEREDOC_REGEX ==
  RCat(<<RChr("<"), RChr("<"), ROpt(RChr("-")), RStar(RSet(SpaceChar)),
         ROpt(RSet(Quote)), RPlus(RSet(WordChar)), ROpt(RSet(Quote))>>)

\* <<-?\s*['"]?\w+['"]?.*$
HeredocSuffixRegex == RCat(<<HEREDOC_REGEX, RStar(RDot), REol>>)

\* firstLine.replace(/<<-?\s*['"]?\w+['"]?.*$/, '').trim()
CmdPart(firstLine) ==
  LET starts == MatchStarts(HeredocSuffixRegex, firstLine)
  IN  Trim(IF starts = {} THEN firstLine
           ELSE Slice(firstLine, 1, Min(starts) - 1))

HEREDOC_TEXT == <<"_","_","H","E","R","E","D","O","C","_","T","E","X","T","_","_">>

\* \$\(cat\s+<<-?\s*['"]?
CatHeredocHead ==
  RCat(<<RChr("$"), RChr("("), RLit(<<"c","a","t">>), RPlus(RSet(SpaceChar)),
         RChr("<"), RChr("<"), ROpt(RChr("-")), RStar(RSet(SpaceChar)),
         ROpt(RSet(Quote))>>)

\* ['"]?\n([\s\S]*?)\n\1\s*\)   with \1 the marker
CatHeredocTail(marker) ==
  RCat(<<ROpt(RSet(Quote)), RChr("\n"), RStar(RNotSet({})), RChr("\n"),
         RLit(marker), RStar(RSet(SpaceChar)), RChr(")")>>)

\* the end of the match of the $(cat <<MARKER...MARKER) pattern that starts at
\* i (the body is matched lazily: the shortest match), or 0 when none starts there
CatHeredocEnd(s, i) ==
  LET ends == UNION {UNION {Ends(CatHeredocTail(Slice(s, j, k - 1)), s, k)
                              : k \in Ends(RPlus(RSet(WordChar)), s, j)}
                       : j \in Ends(CatHeredocHead, s, i)}
  IN  IF ends = {} THEN 0 ELSE Min(ends)

\* input.replace(regex, '__HEREDOC_TEXT__') with the g flag
RECURSIVE ReplaceCatHeredocs(_, _)
ReplaceCatHeredocs(s, i) ==
  IF i > Len(s) THEN << >>
  ELSE LET e == IF s[i] = "$" THEN CatHeredocEnd(s, i) ELSE 0
       IN  IF e = 0 THEN <<s[i]>> \o ReplaceCatHeredocs(s, i + 1)
           ELSE HEREDOC_TEXT \o ReplaceCatHeredocs(s, e)

preprocessCatHeredocs(s) == ReplaceCatHeredocs(s, 1)

(***************************************************************************)
(* parse(input) of the bash-parser library, for the part of the shell      *)
(* grammar the inputs use: words with quotes, $(...), backticks and        *)
(* $NAME; assignments and redirections; | && || ; & and newlines;          *)
(* ( ... ), { ...; }, if, while, until, for and function definitions.      *)
(* A heredoc operator is left in the suffix of its command as a dless /    *)
(* dlessdash node and the lines that follow are read as further commands.  *)
(* A result with ok = FALSE is a thrown exception.                         *)
(***************************************************************************)

\* the grave accent (U+0060), which a TLA+ string cannot hold
Backtick == "BACKTICK"

Meta == SpaceChar \cup {"|", "&", ";", "(", ")", "<", ">"}

Reserved ==
  { <<"i","f">>, <<"t","h","e","n">>, <<"e","l","s","e">>, <<"f","i">>,
    <<"w","h","i","l","e">>, <<"u","n","t","i","l">>, <<"f","o","r">>,
    <<"d","o">>, <<"d","o","n","e">>, <<"i","n">>, <<"{">>, <<"}">> }

\* the index of the ) that closes the $( whose body starts at i, or 0
RECURSIVE CloseParen(_, _, _)
CloseParen(s, i, depth) ==
  IF i > Len(s) THEN 0
  ELSE IF s[i] = "(" THEN CloseParen(s, i + 1, depth + 1)
  ELSE IF s[i] = ")" THEN (IF depth = 1 THEN i ELSE CloseParen(s, i + 1, depth - 1))
  ELSE CloseParen(s, i + 1, depth)

NextIndexOf(s, i, c) ==
  LET at == {j \in i..Len(s) : s[j] = c} IN IF at = {} THEN 0 ELSE Min(at)

CommandExpansion(cmd) == [type |-> "CommandExpansion", command |-> cmd]

ParameterExpansion == [type |-> "ParameterExpansion"]

\* the characters a backslash escapes inside double quotes
DQEscapable == {"\"", "\\", "$", Backtick}

\* the characters that end a run of ordinary characters of a word
WordSpecial(dq) ==
  IF dq THEN DQEscapable ELSE Meta \cup DQEscapable \cup {"'"}

\* the end of the run of ordinary characters that starts before i
RunEnd(s, i, dq) ==
  LET at == {j \in i..Len(s) : s[j] \in WordSpecial(dq)}
  IN  IF at = {} THEN Len(s) + 1 ELSE Min(at)

\* one word starting at i; dq: inside double quotes
RECURSIVE ScanWord(_, _, _, _)
RECURSIVE ScanRun(_, _, _, _, _)
ScanWord(s, i, dq, w) ==
  IF i > Len(s) THEN [w EXCEPT !.ok = ~dq, !.next = i]
  ELSE IF ~dq /\ s[i] \in Meta THEN [w EXCEPT !.next = i]
  ELSE IF s[i] = "\\" /\ i < Len(s) /\ (~dq \/ s[i + 1] \in DQEscapable) THEN
    ScanWord(s, i + 2, dq, [w EXCEPT !.text = Append(@, s[i + 1]), !.quoted = TRUE])
  ELSE IF s[i] = "\"" THEN ScanWord(s, i + 1, ~dq, [w EXCEPT !.quoted = TRUE])
  ELSE IF ~dq /\ s[i] = "'" THEN
    LET j == NextIndexOf(s, i + 1, "'")
    IN  IF j = 0 THEN [w EXCEPT !.ok = FALSE]
        ELSE ScanWord(s, j + 1, dq,
               [w EXCEPT !.text = @ \o Slice(s, i + 1, j - 1), !.quoted = TRUE])
  ELSE IF s[i] = "$" /\ i < Len(s) /\ s[i + 1] = "(" THEN
    LET j == CloseParen(s, i + 2, 1)
    IN  IF j = 0 THEN [w EXCEPT !.ok = FALSE]
        ELSE ScanWord(s, j + 1, dq,
               [w EXCEPT !.text = @ \o Slice(s, i, j),
                         !.expansion = Append(@, CommandExpansion(Slice(s, i + 2, j - 1)))])
  ELSE IF s[i] = Backtick THEN
    LET j == NextIndexOf(s, i + 1, Backtick)
    IN  IF j = 0 THEN [w EXCEPT !.ok = FALSE]
        ELSE ScanWord(s, j + 1, dq,
               [w EXCEPT !.text = @ \o Slice(s, i, j),
                         !.expansion = Append(@, CommandExpansion(Slice(s, i + 1, j - 1)))])
  ELSE IF s[i] = "$" /\ IsWordAt(s, i + 1) THEN
    ScanWord(s, i + 1, dq,
      [w EXCEPT !.text = Append(@, "$"), !.expansion = Append(@, ParameterExpansion)])
  ELSE ScanRun(s, i, dq, w, RunEnd(s, i + 1, dq))

\* the ordinary characters s[i..j-1] are taken at once
ScanRun(s, i, dq, w, j) ==
  ScanWord(s, j, dq, [w EXCEPT !.text = @ \o Slice(s, i, j - 1)])

EmptyScan == [ok |-> TRUE, text |-> << >>, expansion |-> << >>, quoted |-> FALSE, next |-> 0]

Op(v) == [k |-> "OP", v |-> v]

At(s, i, c) == i <= Len(s) /\ s[i] = c

\* the tokens of s from i on; ok = FALSE when a quote or $( is left open
RECURSIVE Lex(_, _, _)
Lex(s, i, acc) ==
  IF i > Len(s) THEN [ok |-> TRUE, toks |-> acc]
  ELSE LET c == s[i] IN
    IF c \in {" ", "\t"} THEN Lex(s, i + 1, acc)
    ELSE IF c = "\n" THEN Lex(s, i + 1, Append(acc, Op("NL")))
    ELSE IF c = "|" THEN
      (IF At(s, i + 1, "|") THEN Lex(s, i + 2, Append(acc, Op("||")))
       ELSE Lex(s, i + 1, Append(acc, Op("|"))))
    ELSE IF c = "&" THEN
      (IF At(s, i + 1, "&") THEN Lex(s, i + 2, Append(acc, Op("&&")))
       ELSE Lex(s, i + 1, Append(acc, Op("&"))))
    ELSE IF c = ";" THEN Lex(s, i + 1, Append(acc, Op(";")))
    ELSE IF c \in {"(", ")"} THEN Lex(s, i + 1, Append(acc, Op(c)))
    ELSE IF c = "<" THEN
      (IF At(s, i + 1, "<") THEN
         (IF At(s, i + 2, "-") THEN Lex(s, i + 3, Append(acc, Op("<<-")))
          ELSE Lex(s, i + 2, Append(acc, Op("<<"))))
       ELSE Lex(s, i + 1, Append(acc, Op("<"))))
    ELSE IF c = ">" THEN
      (IF At(s, i + 1, ">") THEN Lex(s, i + 2, Append(acc, Op(">>")))
       ELSE Lex(s, i + 1, Append(acc, Op(">"))))
    ELSE LET w == ScanWord(s, i, FALSE, EmptyScan) IN
      IF ~w.ok THEN [ok |-> FALSE, toks |-> acc]
      ELSE Lex(s, w.next, Append(acc,
             [k |-> "WORD", text |-> w.text, expansion |-> w.expansion,
              quoted |-> w.quoted]))

TokIs(t, i, v) == i <= Len(t) /\ t[i].k = "OP" /\ t[i].v = v

IsWord(t, i) == i <= Len(t) /\ t[i].k = "WORD"

IsRes(t, i, w) == IsWord(t, i) /\ ~t[i].quoted /\ t[i].text = w

\* ^[A-Za-z_]\w*=
AssignRegex ==
  RCat(<<RSet(Lower \cup Upper \cup {"_"}), RStar(RSet(WordChar)), RChr("=")>>)

IsAssign(t, i) == IsWord(t, i) /\ Ends(AssignRegex, t[i].text, 1) # {}

WordNode(tok) == [type |-> "Word", text |-> tok.text, expansion |-> tok.expansion]

AssignmentNode(tok) ==
  [type |-> "AssignmentWord", text |-> tok.text, expansion |-> tok.expansion]

RedirectNode(op, tok) ==
  [type |-> "Redirect", op |-> [type |-> op], file |-> WordNode(tok)]

\* name: << >> when the command has no name, else <<the Word node>>
CommandNode(name, prefix, suffix) ==
  [type |-> "Command", name |-> name, prefix |-> prefix, suffix |-> suffix]

CompoundList(cmds) == [type |-> "CompoundList", commands |-> cmds]

PFail == [ok |-> FALSE, i |-> 0]

\* the redirection or heredoc operator at i, as an element of a prefix or suffix
IoAt(t, i) ==
  IF TokIs(t, i, "<<") THEN [ok |-> TRUE, i |-> i + 1, node |-> [type |-> "dless"]]
  ELSE IF TokIs(t, i, "<<-") THEN [ok |-> TRUE, i |-> i + 1, node |-> [type |-> "dlessdash"]]
  ELSE IF i <= Len(t) /\ t[i].k = "OP" /\ t[i].v \in {">", ">>", "<"} THEN
    (IF IsWord(t, i + 1)
     THEN [ok |-> TRUE, i |-> i + 2,
           node |-> RedirectNode(IF t[i].v = ">" THEN "great"
                                 ELSE IF t[i].v = ">>" THEN "dgreat" ELSE "less",
                                 t[i + 1])]
     ELSE PFail)
  ELSE PFail

IsIo(t, i) == i <= Len(t) /\ t[i].k = "OP" /\ t[i].v \in {"<<", "<<-", ">", ">>", "<"}

RECURSIVE PPrefix(_, _, _)
PPrefix(t, i, acc) ==
  IF IsAssign(t, i) THEN PPrefix(t, i + 1, Append(acc, AssignmentNode(t[i])))
  ELSE IF IsIo(t, i) THEN
    LET io == IoAt(t, i)
    IN  IF io.ok THEN PPrefix(t, io.i, Append(acc, io.node)) ELSE PFail
  ELSE [ok |-> TRUE, i |-> i, items |-> acc]

RECURSIVE PSuffix(_, _, _)
PSuffix(t, i, acc) ==
  IF IsWord(t, i) THEN PSuffix(t, i + 1, Append(acc, WordNode(t[i])))
  ELSE IF IsIo(t, i) THEN
    LET io == IoAt(t, i)
    IN  IF io.ok THEN PSuffix(t, io.i, Append(acc, io.node)) ELSE PFail
  ELSE [ok |-> TRUE, i |-> i, items |-> acc]

\* simple command: prefix* [name suffix*], at least one of them
PSimple(t, i) ==
  LET pre == PPrefix(t, i, << >>)
  IN  IF ~pre.ok THEN PFail
      ELSE IF IsWord(t, pre.i) THEN
        LET suf == PSuffix(t, pre.i + 1, << >>)
        IN  IF ~suf.ok THEN PFail
            ELSE [ok |-> TRUE, i |-> suf.i,
                  node |-> CommandNode(<<WordNode(t[pre.i])>>, pre.items, suf.items)]
      ELSE IF pre.items = << >> THEN PFail
      ELSE [ok |-> TRUE, i |-> pre.i, node |-> CommandNode(<< >>, pre.items, << >>)]

RECURSIVE SkipNL(_, _)
SkipNL(t, i) == IF TokIs(t, i, "NL") THEN SkipNL(t, i + 1) ELSE i

Closers ==
  { <<"t","h","e","n">>, <<"e","l","s","e">>, <<"f","i">>, <<"d","o">>,
    <<"d","o","n","e">>, <<"}">> }

AtListEnd(t, i) ==
  \/ i > Len(t)
  \/ TokIs(t, i, ")")
  \/ (IsWord(t, i) /\ ~t[i].quoted /\ t[i].text \in Closers)

RECURSIVE PWords(_, _, _)
PWords(t, i, acc) ==
  IF IsWord(t, i) THEN PWords(t, i + 1, Append(acc, WordNode(t[i])))
  ELSE [i |-> i, items |-> acc]

RECURSIVE PList(_, _, _)
RECURSIVE ListAfter(_, _, _)
RECURSIVE PAndOr(_, _)
RECURSIVE PAndOrRest(_, _, _)
RECURSIVE AndOrAfter(_, _, _, _)
RECURSIVE PPipeline(_, _)
RECURSIVE PPipeRest(_, _, _)
RECURSIVE PipeAfter(_, _, _)
RECURSIVE PCommand(_, _)
RECURSIVE ThenAfter(_, _, _)
RECURSIVE ElseAfter(_, _, _, _)
RECURSIVE DoAfter(_, _, _)

\* the list continued after the and-or list a
ListAfter(t, acc, a) ==
  IF ~a.ok THEN PFail
  ELSE IF TokIs(t, a.i, ";") \/ TokIs(t, a.i, "&") \/ TokIs(t, a.i, "NL")
    THEN PList(t, a.i + 1, Append(acc, a.node))
  ELSE IF AtListEnd(t, a.i)
    THEN [ok |-> TRUE, i |-> a.i, cmds |-> Append(acc, a.node)]
  ELSE PFail

\* a list of and-or lists up to the end of the enclosing construct
PList(t, i, acc) ==
  IF AtListEnd(t, SkipNL(t, i)) THEN [ok |-> TRUE, i |-> SkipNL(t, i), cmds |-> acc]
  ELSE ListAfter(t, acc, PAndOr(t, SkipNL(t, i)))

PAndOr(t, i) == PAndOrRest(t, i, PPipeline(t, i))

\* the and-or list continued after its right operand r, the operator at i
AndOrAfter(t, i, left, r) ==
  IF ~r.ok THEN PFail
  ELSE PAndOrRest(t, i,
         [ok |-> TRUE, i |-> r.i,
          node |-> [type |-> "LogicalExpression",
                    op |-> IF t[i].v = "&&" THEN "and" ELSE "or",
                    left |-> left.node, right |-> r.node]])

\* left: the and-or list parsed so far, ending before left.i
PAndOrRest(t, i0, left) ==
  IF ~left.ok THEN PFail
  ELSE IF TokIs(t, left.i, "&&") \/ TokIs(t, left.i, "||")
    THEN AndOrAfter(t, left.i, left, PPipeline(t, SkipNL(t, left.i + 1)))
  ELSE left

PPipeline(t, i) == PipeAfter(t, << >>, PCommand(t, i))

\* the pipeline continued after its command c
PipeAfter(t, acc, c) ==
  IF ~c.ok THEN PFail ELSE PPipeRest(t, c.i, Append(acc, c.node))

PPipeRest(t, i, acc) ==
  IF TokIs(t, i, "|") THEN PipeAfter(t, acc, PCommand(t, SkipNL(t, i + 1)))
  ELSE [ok |-> TRUE, i |-> i,
        node |-> IF Len(acc) = 1 THEN acc[1]
                 ELSE [type |-> "Pipeline", commands |-> acc]]

\* ( list ) and { list; }: l is the list, closed by a ")" or by the word "}"
GroupAfter(t, l, paren) ==
  IF l.ok /\ l.cmds # << >>
     /\ (IF paren THEN TokIs(t, l.i, ")") ELSE IsRes(t, l.i, <<"}">>))
  THEN [ok |-> TRUE, i |-> l.i + 1,
        node |-> IF paren THEN [type |-> "Subshell", list |-> CompoundList(l.cmds)]
                 ELSE CompoundList(l.cmds)]
  ELSE PFail

\* if c; then th; else el; fi
ElseAfter(t, c, th, el) ==
  IF el.ok /\ el.cmds # << >> /\ IsRes(t, el.i, <<"f","i">>)
  THEN [ok |-> TRUE, i |-> el.i + 1,
        node |-> [type |-> "If", clause |-> CompoundList(c.cmds),
                  then |-> CompoundList(th.cmds),
                  else |-> <<CompoundList(el.cmds)>>]]
  ELSE PFail

\* if c; then th ...
ThenAfter(t, c, th) ==
  IF ~(th.ok /\ th.cmds # << >>) THEN PFail
  ELSE IF IsRes(t, th.i, <<"f","i">>) THEN
    [ok |-> TRUE, i |-> th.i + 1,
     node |-> [type |-> "If", clause |-> CompoundList(c.cmds),
               then |-> CompoundList(th.cmds), else |-> << >>]]
  ELSE IF IsRes(t, th.i, <<"e","l","s","e">>)
    THEN ElseAfter(t, c, th, PList(t, th.i + 1, << >>))
  ELSE PFail

\* if c ...
IfAfter(t, c) ==
  IF ~(c.ok /\ c.cmds # << >> /\ IsRes(t, c.i, <<"t","h","e","n">>)) THEN PFail
  ELSE ThenAfter(t, c, PList(t, c.i + 1, << >>))

\* do b; done closes the loop whose node, without its body, is head
DoAfter(t, head, b) ==
  IF b.ok /\ b.cmds # << >> /\ IsRes(t, b.i, <<"d","o","n","e">>)
  THEN [ok |-> TRUE, i |-> b.i + 1,
        node |-> IF head.type = "For"
                 THEN [type |-> "For", name |-> head.name, wordlist |-> head.wordlist,
                       do |-> CompoundList(b.cmds)]
                 ELSE [type |-> head.type, clause |-> head.clause,
                       do |-> CompoundList(b.cmds)]]
  ELSE PFail

\* while c ... and until c ...
LoopAfter(t, type, c) ==
  IF ~(c.ok /\ c.cmds # << >> /\ IsRes(t, c.i, <<"d","o">>)) THEN PFail
  ELSE DoAfter(t, [type |-> type, clause |-> CompoundList(c.cmds)],
               PList(t, c.i + 1, << >>))

\* for name in ws; ...: the word list ends before ws.i
ForAfter(t, name, ws) ==
  IF ~(TokIs(t, ws.i, ";") \/ TokIs(t, ws.i, "NL")) THEN PFail
  ELSE IF ~IsRes(t, SkipNL(t, ws.i + 1), <<"d","o">>) THEN PFail
  ELSE DoAfter(t, [type |-> "For", name |-> name, wordlist |-> ws.items],
               PList(t, SkipNL(t, ws.i + 1) + 1, << >>))

\* name () b
FunctionAfter(name, b) ==
  IF ~b.ok THEN PFail
  ELSE [ok |-> TRUE, i |-> b.i,
        node |-> [type |-> "Function",
                  name |-> [type |-> "Name", text |-> name.text],
                  body |-> b.node]]

PCommand(t, i) ==
  IF TokIs(t, i, "(") THEN GroupAfter(t, PList(t, i + 1, << >>), TRUE)
  ELSE IF IsRes(t, i, <<"{">>) THEN GroupAfter(t, PList(t, i + 1, << >>), FALSE)
  ELSE IF IsRes(t, i, <<"i","f">>) THEN IfAfter(t, PList(t, i + 1, << >>))
  ELSE IF IsRes(t, i, <<"w","h","i","l","e">>)
    THEN LoopAfter(t, "While", PList(t, i + 1, << >>))
  ELSE IF IsRes(t, i, <<"u","n","t","i","l">>)
    THEN LoopAfter(t, "Until", PList(t, i + 1, << >>))
  ELSE IF IsRes(t, i, <<"f","o","r">>) THEN
    IF ~IsWord(t, i + 1) THEN PFail
    ELSE ForAfter(t, WordNode(t[i + 1]),
                  IF IsRes(t, i + 2, <<"i","n">>) THEN PWords(t, i + 3, << >>)
                  ELSE [i |-> i + 2, items |-> << >>])
  ELSE IF IsWord(t, i) /\ ~t[i].quoted /\ t[i].text \in Closers THEN PFail
  ELSE IF IsWord(t, i) /\ TokIs(t, i + 1, "(") THEN
    IF ~TokIs(t, i + 2, ")") THEN PFail
    ELSE FunctionAfter(t[i],
           IF TokIs(t, SkipNL(t, i + 3), "(") \/ IsRes(t, SkipNL(t, i + 3), <<"{">>)
           THEN PCommand(t, SkipNL(t, i + 3)) ELSE PFail)
  ELSE PSimple(t, i)

\* the Script node of a token list, or ok = FALSE
ScriptOf(toks, l) ==
  IF l.ok /\ l.i > Len(toks)
  THEN [ok |-> TRUE, ast |-> [type |-> "Script", commands |-> l.cmds]]
  ELSE [ok |-> FALSE]

ParseTokens(lx) ==
  IF ~lx.ok THEN [ok |-> FALSE] ELSE ScriptOf(lx.toks, PList(lx.toks, 1, << >>))

\* parse(input): [ok |-> TRUE, ast |-> the Script node], or ok = FALSE when it throws
parse(s) == ParseTokens(Lex(s, 1, << >>))

(***************************************************************************)
(* The shell parser                                                        *)
(***************************************************************************)

\* convertCommand: << >> is null, else <<the ParsedCommand>>
RECURSIVE WordTexts(_, _)
WordTexts(items, type) ==
  IF items = << >> THEN << >>
  ELSE (IF items[1].type = type THEN <<items[1].text>> ELSE << >>)
       \o WordTexts(Tail(items), type)

convertCommand(node) ==
  IF node.name = << >> THEN << >>
  ELSE LET text        == node.name[1].text
           command     == IF Includes(text, "/") THEN Basename(text) ELSE text
           envPrefixes == WordTexts(node.prefix, "AssignmentWord")
           args        == WordTexts(node.suffix, "Word")
           raw         == Join(envPrefixes \o <<text>> \o args)
       IN  << [command |-> command, args |-> args,
               envPrefixes |-> envPrefixes, raw |-> raw] >>

\* the commands of the CommandExpansion entries of one expansion list
RECURSIVE ExpansionCommands(_)
ExpansionCommands(exps) ==
  IF exps = << >> THEN << >>
  ELSE (IF exps[1].type = "CommandExpansion" /\ exps[1].command # << >>
        THEN <<exps[1].command>> ELSE << >>)
       \o ExpansionCommands(Tail(exps))

RECURSIVE SuffixExpansions(_)
SuffixExpansions(items) ==
  IF items = << >> THEN << >>
  ELSE (IF items[1].type = "Word" THEN ExpansionCommands(items[1].expansion) ELSE << >>)
       \o SuffixExpansions(Tail(items))

collectCommandExpansions(node) ==
  IF node.type = "Command"
  THEN SuffixExpansions(node.suffix)
       \o (IF node.name # << >> THEN ExpansionCommands(node.name[1].expansion) ELSE << >>)
  ELSE << >>

\* a ParseResult; threw: an exception left the function instead
Result(commands, hasSubshell, subshellCommands, parseError) ==
  [commands |-> commands, hasSubshell |-> hasSubshell,
   subshellCommands |-> subshellCommands, parseError |-> parseError,
   threw |-> FALSE]

Thrown ==
  [commands |-> << >>, hasSubshell |-> FALSE, subshellCommands |-> << >>,
   parseError |-> FALSE, threw |-> TRUE]

EmptyWalk ==
  [commands |-> << >>, hasSubshell |-> FALSE, subshellCommands |-> << >>,
   threw |-> FALSE]

Shells == { <<"s","h">>, <<"b","a","s","h">>, <<"z","s","h">> }

hasHeredocRedirect(node) ==
  \E i \in 1..Len(node.suffix) : node.suffix[i].type \in {"dless", "dlessdash"}

\* the values of a node's properties that are nodes or arrays of nodes,
\* the expansion lists left out
Children(node) ==
  CASE node.type = "Command"  -> node.name \o node.prefix \o node.suffix
    [] node.type = "Redirect" -> <<node.op, node.file>>
    [] node.type = "Pipeline" -> node.commands
    [] node.type = "LogicalExpression" -> <<node.left, node.right>>
    [] node.type = "Subshell" -> <<node.list>>
    [] node.type = "CompoundList" -> node.commands
    [] node.type = "If" -> <<node.clause, node.then>> \o node.else
    [] node.type \in {"While", "Until"} -> <<node.clause, node.do>>
    [] node.type = "For" -> <<node.name>> \o node.wordlist \o <<node.do>>
    [] node.type = "Function" -> <<node.name, node.body>>
    [] OTHER -> << >>

RECURSIVE check(_)
check(node) ==
  \/ (node.type = "Command" /\ hasHeredocRedirect(node))
  \/ \E i \in 1..Len(Children(node)) : check(Children(node)[i])

astHasHeredoc(ast) == \E i \in 1..Len(ast.commands) : check(ast.commands[i])

RECURSIVE walkNode(_, _)
RECURSIVE walkNodes(_, _)
RECURSIVE walkShell(_, _, _)
RECURSIVE walkCommand(_, _, _)
RECURSIVE reparseFirstLine(_)
RECURSIVE parseBody(_, _)
RECURSIVE parseCatch(_)
RECURSIVE parseCommand(_)

\* UnwrapArg that hands the whole wrapper invocation back to the parser
UnwrapArgRaw(p) == p.raw

\* the string walkNode re-enters parseCommand on: parsed.args[1]
UnwrapArg(p) == p.args[2]

\* walkShell that leaves the child's taint out of the parent
walkShellDropsTaint(r1, p, innerResult) ==
  IF innerResult.threw THEN [r1 EXCEPT !.threw = TRUE]
  ELSE IF innerResult.parseError
    THEN [r1 EXCEPT !.commands = Append(@, p)]
  ELSE [r1 EXCEPT !.commands = @ \o innerResult.commands]

\* walkShell that keeps the wrapper instead of re-entering the parser's result
walkShellKeepsWrapper(r1, p, innerResult) ==
  IF innerResult.threw THEN [r1 EXCEPT !.threw = TRUE]
  ELSE [r1 EXCEPT !.commands = Append(@, p)]

\* the sh/bash/zsh -c branch of walkNode: innerResult = parseCommand(args[1])
walkShell(r1, p, innerResult) ==
  IF innerResult.threw THEN [r1 EXCEPT !.threw = TRUE]
  ELSE IF innerResult.parseError
    THEN [r1 EXCEPT !.commands = Append(@, p)]
  ELSE [r1 EXCEPT !.commands = @ \o innerResult.commands,
                  !.hasSubshell = @ \/ innerResult.hasSubshell,
                  !.subshellCommands = @ \o innerResult.subshellCommands]

\* the Command case of walkNode past the expansions: parsed1 = convertCommand(cmd)
walkCommand(r1, parsed1, result) ==
  IF parsed1 = << >> THEN r1
  ELSE IF parsed1[1].command \in Shells /\ Len(parsed1[1].args) >= 2
          /\ parsed1[1].args[1] = <<"-","c">>
    THEN walkShell(r1, parsed1[1], parseCommand(UnwrapArg(parsed1[1])))
  ELSE [r1 EXCEPT !.commands = Append(@, parsed1[1])]

\* walkNode(node, result): the result after the call; once an exception is
\* raised the rest of the walk is skipped
walkNode(node, result) ==
  IF result.threw THEN result
  ELSE IF node.type = "Command" THEN
    walkCommand(IF Len(collectCommandExpansions(node)) > 0
                THEN [result EXCEPT !.hasSubshell = TRUE,
                                    !.subshellCommands = @ \o collectCommandExpansions(node)]
                ELSE result,
                convertCommand(node), result)
  ELSE IF node.type = "Pipeline" THEN walkNodes(node.commands, result)
  ELSE IF node.type = "LogicalExpression"
    THEN walkNode(node.right, walkNode(node.left, result))
  ELSE IF node.type = "Subshell"
    THEN walkNodes(node.list.commands, [result EXCEPT !.hasSubshell = TRUE])
  ELSE IF node.type \in {"If", "For", "While", "Until", "Case", "Function"}
    THEN [result EXCEPT !.hasSubshell = TRUE]
  ELSE result

\* for (const cmd of commands) walkNode(cmd, result)
walkNodes(nodes, result) ==
  IF nodes = << >> THEN result
  ELSE walkNodes(Tail(nodes), walkNode(nodes[1], result))

\* the walk of a whole script; an exception of parse passes through
walkScript(p) ==
  IF ~p.ok THEN [EmptyWalk EXCEPT !.threw = TRUE]
  ELSE walkNodes(p.ast.commands, EmptyWalk)

\* FirstLineResult that reports the best-effort commands as a parse error
FirstLineResultFlagged(r) ==
  IF r.threw THEN Result(<< >>, TRUE, << >>, TRUE)
  ELSE Result(r.commands, TRUE, r.subshellCommands, TRUE)

\* the result of the first-line fallback from its walk r
FirstLineResult(r) ==
  IF r.threw THEN Result(<< >>, TRUE, << >>, TRUE)
  ELSE Result(r.commands, TRUE, r.subshellCommands, FALSE)

\* try { parse(cmdPart); walk; return hasSubshell: true } catch { parseError }
reparseFirstLine(cmdPart) == FirstLineResult(walkScript(parse(cmdPart)))

\* the result of the plain path from its walk r
WalkedResult(r) ==
  IF r.threw THEN Thrown
  ELSE Result(r.commands, r.hasSubshell, r.subshellCommands, FALSE)

\* the body of the outer try of parseCommand, p = parse(in)
parseBody(in, p) ==
  IF ~p.ok THEN Thrown
  ELSE IF astHasHeredoc(p.ast) THEN
    IF CmdPart(FirstLine(in)) = << >> THEN Result(<< >>, FALSE, << >>, TRUE)
    ELSE reparseFirstLine(CmdPart(FirstLine(in)))
  ELSE WalkedResult(walkNodes(p.ast.commands, EmptyWalk))

\* the catch block of the outer try of parseCommand
parseCatch(in) ==
  IF RegexTest(HEREDOC_REGEX, in) THEN
    IF CmdPart(FirstLine(in)) = << >> THEN Result(<< >>, TRUE, << >>, TRUE)
    ELSE reparseFirstLine(CmdPart(FirstLine(in)))
  ELSE Result(<< >>, FALSE, << >>, TRUE)

\* tryCatch without the catch block
tryNoCatch(in, t) == t

\* try { body } catch { handler }
tryCatch(in, t) == IF t.threw THEN parseCatch(in) ELSE t

\* parseCommand past the blank check, in = preprocessCatHeredocs(input)
parsePreprocessed(in) == tryCatch(in, parseBody(in, parse(in)))

parseCommand(in0) ==
  IF Trim(in0) = << >> THEN Result(<< >>, FALSE, << >>, FALSE)
  ELSE parsePreprocessed(preprocessCatHeredocs(in0))

(***************************************************************************)
(* The built-in configuration.  A match specification holds, for each      *)
(* predicate, << >> when the predicate is absent; the reason and           *)
(* description texts of the patterns are left out.                         *)
(***************************************************************************)

NoMatchSpec ==
  [anyArgMatches |-> << >>, argsMatch |-> << >>, noArgs |-> << >>,
   argCount |-> << >>, not |-> FALSE]

AnyArgMatches(regexes) == [NoMatchSpec EXCEPT !.anyArgMatches = regexes]

ArgsMatch(regexes) == [NoMatchSpec EXCEPT !.argsMatch = regexes]

NoArgsIs(b) == [NoMatchSpec EXCEPT !.noArgs = <<b>>]

\* argCount: { max }, not: false
ArgCountMax(n) == [NoMatchSpec EXCEPT !.argCount = <<[min |-> << >>, max |-> <<n>>]>>]

Pattern(match, decision) == [match |-> match, decision |-> decision]

Rule(command, default, argPatterns) ==
  [command |-> command, default |-> default, argPatterns |-> argPatterns]

SAFE_DEV_TOOLS ==
  << <<"j","e","s","t">>, <<"v","i","t","e","s","t">>, <<"t","s","c">>,
     <<"e","s","l","i","n","t">>, <<"p","r","e","t","t","i","e","r">>,
     <<"m","k","d","i","r","p">>, <<"c","o","n","c","u","r","r","e","n","t","l","y">>,
     <<"t","u","r","b","o">>, <<"n","e","x","t">>, <<"n","u","x","t">>,
     <<"v","i","t","e">>, <<"a","s","t","r","o">>,
     <<"p","l","a","y","w","r","i","g","h","t">>, <<"c","y","p","r","e","s","s">>,
     <<"m","o","c","h","a">>, <<"n","y","c">>, <<"c","8">>,
     <<"t","s","-","j","e","s","t">>, <<"t","s","u","p">>,
     <<"e","s","b","u","i","l","d">>, <<"r","o","l","l","u","p">>,
     <<"w","e","b","p","a","c","k">>, <<"p","r","i","s","m","a">>,
     <<"d","r","i","z","z","l","e","-","k","i","t">>, <<"t","y","p","e","o","r","m">>,
     <<"k","n","e","x">>, <<"s","e","q","u","e","l","i","z","e","-","c","l","i">>,
     <<"t","a","i","l","w","i","n","d","c","s","s">>, <<"p","o","s","t","c","s","s">>,
     <<"a","u","t","o","p","r","e","f","i","x","e","r">>,
     <<"l","i","n","t","-","s","t","a","g","e","d">>, <<"h","u","s","k","y">>,
     <<"c","h","a","n","g","e","s","e","t">>,
     <<"s","e","m","a","n","t","i","c","-","r","e","l","e","a","s","e">>,
     <<"l","e","r","n","a">>, <<"n","x">>,
     <<"c","r","e","a","t","e","-","r","e","a","c","t","-","a","p","p">>,
     <<"c","r","e","a","t","e","-","n","e","x","t","-","a","p","p">>,
     <<"c","r","e","a","t","e","-","v","i","t","e">>, <<"d","e","g","i","t">>,
     <<"s","t","o","r","y","b","o","o","k">>, <<"w","r","a","n","g","l","e","r">>,
     <<"n","e","t","l","i","f","y">>, <<"v","e","r","c","e","l">>, <<"j","s","o","n">> >>

SCRIPT_RUNNERS == << <<"t","s","x">>, <<"t","s","-","n","o","d","e">>, <<"n","o","d","e","m","o","n">> >>

REGISTRY_OPS ==
  << <<"p","u","b","l","i","s","h">>, <<"u","n","p","u","b","l","i","s","h">>,
     <<"d","e","p","r","e","c","a","t","e">>, <<"o","w","n","e","r">>,
     <<"a","c","c","e","s","s">>, <<"t","o","k","e","n">>,
     <<"a","d","d","u","s","e","r">>, <<"l","o","g","i","n">>,
     <<"l","o","g","o","u","t">> >>

SAFE_PKG_MANAGER_CMDS ==
  << <<"i","n","s","t","a","l","l">>, <<"a","d","d">>, <<"r","e","m","o","v","e">>,
     <<"u","n","i","n","s","t","a","l","l">>, <<"u","p","d","a","t","e">>,
     <<"u","p","g","r","a","d","e">>, <<"o","u","t","d","a","t","e","d">>, <<"l","s">>,
     <<"l","i","s","t">>, <<"r","u","n">>, <<"t","e","s","t">>, <<"s","t","a","r","t">>,
     <<"b","u","i","l","d">>, <<"i","n","i","t">>, <<"c","r","e","a","t","e">>,
     <<"i","n","f","o">>, <<"v","i","e","w">>, <<"s","h","o","w">>, <<"w","h","y">>,
     <<"p","a","c","k">>, <<"c","a","c","h","e">>, <<"c","o","n","f","i","g">>,
     <<"g","e","t">>, <<"s","e","t">>, <<"v","e","r","s","i","o","n">>,
     <<"h","e","l","p">>, <<"e","x","e","c">>, <<"d","e","d","u","p","e">>,
     <<"p","r","u","n","e">>, <<"a","u","d","i","t">>,
     <<"c","o","m","p","l","e","t","i","o","n">> >>

\* ^--(version|help)$
RxLongFlags ==
  RCat(<<RBol, RLit(<<"-","-">>),
         RAny(<<RLit(<<"v","e","r","s","i","o","n">>), RLit(<<"h","e","l","p">>)>>), REol>>)

\* ^-[vh]$
RxShortFlags == RCat(<<RBol, RChr("-"), RSet({"v","h"}), REol>>)

VERSION_HELP_FLAGS == Pattern(AnyArgMatches(<<RxLongFlags, RxShortFlags>>), "allow")

\* '^(' + items.join('|') + ')$'
anyArgMatchesPattern(items) ==
  RCat(<<RBol, RAny([i \in 1..Len(items) |-> RLit(items[i])]), REol>>)

safeDevToolsPattern ==
  Pattern(AnyArgMatches(<<anyArgMatchesPattern(SAFE_DEV_TOOLS)>>), "allow")

scriptRunnersPattern ==
  Pattern(AnyArgMatches(<<anyArgMatchesPattern(SCRIPT_RUNNERS)>>), "ask")

registryOpsPattern ==
  Pattern(AnyArgMatches(<<anyArgMatchesPattern(REGISTRY_OPS)>>), "ask")

pkgManagerRule(command, extraSafeCmds) ==
  Rule(command, "ask",
       << registryOpsPattern,
          Pattern(AnyArgMatches(
            <<anyArgMatchesPattern(SAFE_PKG_MANAGER_CMDS \o extraSafeCmds)>>), "allow"),
          VERSION_HELP_FLAGS >>)

pkgRunnerRule(command) ==
  Rule(command, "ask",
       <<safeDevToolsPattern, scriptRunnersPattern, VERSION_HELP_FLAGS>>)

\* ['bash', 'sh', 'zsh'].map(...): ^--(version|help)$
ShellRule(cmd) ==
  Rule(cmd, "ask", <<Pattern(AnyArgMatches(<<RxLongFlags>>), "allow")>>)

\* ['python', 'python3'].map(...): ^--(version|help)$  ^-V$
PythonRule(cmd) ==
  Rule(cmd, "ask", <<Pattern(AnyArgMatches(<<RxLongFlags, RCat(<<RBol, RLit(<<"-","V">>), REol>>)>>), "allow")>>)

DEFAULT_alwaysAllow ==
  << <<"c","a","t">>, <<"h","e","a","d">>, <<"t","a","i","l">>, <<"l","e","s","s">>,
     <<"m","o","r","e">>, <<"w","c">>, <<"s","o","r","t">>, <<"u","n","i","q">>,
     <<"t","e","e">>, <<"d","i","f","f">>, <<"c","o","m","m">>, <<"c","u","t">>,
     <<"p","a","s","t","e">>, <<"t","r">>, <<"f","o","l","d">>,
     <<"e","x","p","a","n","d">>, <<"u","n","e","x","p","a","n","d">>,
     <<"c","o","l","u","m","n">>, <<"r","e","v">>, <<"t","a","c">>, <<"n","l">>,
     <<"o","d">>, <<"x","x","d">>, <<"f","i","l","e">>, <<"s","t","a","t">>,
     <<"g","r","e","p">>, <<"e","g","r","e","p">>, <<"f","g","r","e","p">>, <<"r","g">>,
     <<"a","g">>, <<"a","c","k">>, <<"f","i","n","d">>, <<"f","d">>, <<"f","z","f">>,
     <<"l","o","c","a","t","e">>, <<"w","h","i","c","h">>,
     <<"w","h","e","r","e","i","s">>, <<"t","y","p","e">>,
     <<"c","o","m","m","a","n","d">>, <<"l","s">>, <<"d","i","r">>, <<"t","r","e","e">>,
     <<"e","x","a">>, <<"e","z","a">>, <<"l","s","d">>,
     <<"b","a","s","e","n","a","m","e">>, <<"d","i","r","n","a","m","e">>,
     <<"r","e","a","l","p","a","t","h">>, <<"r","e","a","d","l","i","n","k">>,
     <<"e","c","h","o">>, <<"p","r","i","n","t","f">>, <<"t","r","u","e">>,
     <<"f","a","l","s","e">>, <<"t","e","s","t">>, <<"[">>, <<"d","a","t","e">>,
     <<"c","a","l">>, <<"e","n","v">>, <<"p","r","i","n","t","e","n","v">>,
     <<"u","n","a","m","e">>, <<"h","o","s","t","n","a","m","e">>,
     <<"w","h","o","a","m","i">>, <<"i","d">>, <<"p","w","d">>, <<"p","s">>,
     <<"t","o","p">>, <<"h","t","o","p">>, <<"u","p","t","i","m","e">>,
     <<"f","r","e","e">>, <<"d","f">>, <<"d","u">>, <<"l","s","o","f">>, <<"s","e","d">>,
     <<"a","w","k">>, <<"j","q">>, <<"y","q">>, <<"x","a","r","g","s">>, <<"s","e","q">>,
     <<"b","a","t">>, <<"p","y","g","m","e","n","t","i","z","e">>,
     <<"h","i","g","h","l","i","g","h","t">>, <<"n","v","m">>, <<"f","n","m">>,
     <<"r","b","e","n","v">>, <<"p","y","e","n","v">>, <<"s","t","t","y">>,
     <<"t","p","u","t">>, <<"r","e","s","e","t">>, <<"c","l","e","a","r">>, <<"c","d">>,
     <<"p","u","s","h","d">>, <<"p","o","p","d">>, <<"d","i","r","s">>,
     <<"h","a","s","h">>, <<"a","l","i","a","s">>, <<"s","l","e","e","p">>,
     <<"w","a","i","t">>, <<"t","i","m","e">>, <<"m","d","5">>,
     <<"m","d","5","s","u","m">>, <<"s","h","a","2","5","6","s","u","m">>,
     <<"s","h","a","s","u","m">>, <<"c","k","s","u","m">>, <<"b","a","s","e","6","4">>,
     <<"o","p","e","n","s","s","l">> >>

DEFAULT_alwaysDeny ==
  << <<"s","u","d","o">>, <<"s","u">>, <<"d","o","a","s">>, <<"m","k","f","s">>,
     <<"f","d","i","s","k">>, <<"d","d">>, <<"s","h","u","t","d","o","w","n">>,
     <<"r","e","b","o","o","t">>, <<"h","a","l","t">>,
     <<"p","o","w","e","r","o","f","f">>, <<"i","p","t","a","b","l","e","s">>,
     <<"i","p","6","t","a","b","l","e","s">>, <<"n","f","t">>,
     <<"u","s","e","r","a","d","d">>, <<"u","s","e","r","d","e","l">>,
     <<"u","s","e","r","m","o","d">>, <<"g","r","o","u","p","a","d","d">>,
     <<"g","r","o","u","p","d","e","l">>, <<"c","r","o","n","t","a","b">>,
     <<"s","y","s","t","e","m","c","t","l">>, <<"s","e","r","v","i","c","e">>,
     <<"l","a","u","n","c","h","c","t","l">> >>

DEFAULT_rules ==
  << Rule(<<"c","l","a","u","d","e">>, "ask", <<
       \* ^--(version|help)$  ^-[vh]$
       Pattern(AnyArgMatches(<<RxLongFlags,
                         RxShortFlags>>), "allow") >>),
     ShellRule(<<"b","a","s","h">>),
     ShellRule(<<"s","h">>),
     ShellRule(<<"z","s","h">>),
     Rule(<<"n","o","d","e">>, "ask", <<
       \* ^-e$  ^--eval  ^-p$  ^--print
       Pattern(AnyArgMatches(<<RCat(<<RBol, RLit(<<"-","e">>), REol>>),
                         RCat(<<RBol, RLit(<<"-","-","e","v","a","l">>)>>),
                         RCat(<<RBol, RLit(<<"-","p">>), REol>>),
                         RCat(<<RBol, RLit(<<"-","-","p","r","i","n","t">>)>>)>>), "ask"),
       \* ^--(version|help)$  ^-[vh]$
       Pattern(AnyArgMatches(<<RxLongFlags,
                         RxShortFlags>>), "allow"),
       Pattern(NoArgsIs(TRUE), "ask") >>),
     pkgRunnerRule(<<"n","p","x">>),
     pkgRunnerRule(<<"b","u","n","x">>),
     pkgManagerRule(<<"n","p","m">>,
       << <<"c","i">>, <<"s","e","a","r","c","h">>, <<"e","x","p","l","a","i","n">>,
          <<"p","r","e","f","i","x">>, <<"r","o","o","t">>, <<"f","u","n","d">>,
          <<"d","o","c","t","o","r">>, <<"d","i","f","f">>, <<"p","k","g">>,
          <<"q","u","e","r","y">>, <<"s","h","r","i","n","k","w","r","a","p">> >>),
     pkgManagerRule(<<"p","n","p","m">>,
       << <<"s","t","o","r","e">>, <<"f","e","t","c","h">>, <<"d","o","c","t","o","r">>,
          <<"p","a","t","c","h">> >>),
     pkgManagerRule(<<"y","a","r","n">>,
       << <<"u","p">>, <<"d","l","x">>, <<"w","o","r","k","s","p","a","c","e","s">> >>),
     Rule(<<"b","u","n">>, "ask", <<
       Pattern(AnyArgMatches(<<anyArgMatchesPattern(SAFE_PKG_MANAGER_CMDS \o
         << <<"c","i">>, <<"p","m">>, <<"x">>, <<"l","i","n","k">>,
            <<"u","n","l","i","n","k">> >>)>>), "allow"),
       safeDevToolsPattern,
       scriptRunnersPattern,
       VERSION_HELP_FLAGS >>),
     PythonRule(<<"p","y","t","h","o","n">>),
     PythonRule(<<"p","y","t","h","o","n","3">>),
     Rule(<<"p","i","p">>, "allow", << >>),
     Rule(<<"p","i","p","3">>, "allow", << >>),
     Rule(<<"u","v">>, "allow", <<
       \* ^publish$
       Pattern(AnyArgMatches(<<RCat(<<RBol, RLit(<<"p","u","b","l","i","s","h">>), REol>>)>>), "ask") >>),
     Rule(<<"p","i","p","x">>, "ask", << >>),
     Rule(<<"g","i","t">>, "allow", <<
       \* push\s+--force  push\s+-f\b
       Pattern(ArgsMatch(<<RCat(<<RLit(<<"p","u","s","h">>), RPlus(RSet(SpaceChar)), RLit(<<"-","-","f","o","r","c","e">>)>>),
                         RCat(<<RLit(<<"p","u","s","h">>), RPlus(RSet(SpaceChar)), RLit(<<"-","f">>), RWordB>>)>>), "ask"),
       \* reset\s+--hard
       Pattern(ArgsMatch(<<RCat(<<RLit(<<"r","e","s","e","t">>), RPlus(RSet(SpaceChar)), RLit(<<"-","-","h","a","r","d">>)>>)>>), "ask"),
       \* ^clean$
       Pattern(AnyArgMatches(<<RCat(<<RBol, RLit(<<"c","l","e","a","n">>), REol>>)>>), "ask") >>),
     Rule(<<"g","h">>, "allow", <<
       \* repo\s+delete  repo\s+archive
       Pattern(ArgsMatch(<<RCat(<<RLit(<<"r","e","p","o">>), RPlus(RSet(SpaceChar)), RLit(<<"d","e","l","e","t","e">>)>>),
                         RCat(<<RLit(<<"r","e","p","o">>), RPlus(RSet(SpaceChar)), RLit(<<"a","r","c","h","i","v","e">>)>>)>>), "ask") >>),
     Rule(<<"m","a","k","e">>, "allow", << >>),
     Rule(<<"c","m","a","k","e">>, "allow", << >>),
     Rule(<<"c","a","r","g","o">>, "allow", <<
       \* ^(publish|login|logout|owner|yank)$
       Pattern(AnyArgMatches(<<RCat(<<RBol, RAny(<<RLit(<<"p","u","b","l","i","s","h">>), RLit(<<"l","o","g","i","n">>), RLit(<<"l","o","g","o","u","t">>), RLit(<<"o","w","n","e","r">>), RLit(<<"y","a","n","k">>)>>), REol>>)>>), "ask") >>),
     Rule(<<"g","o">>, "allow", <<
       \* ^generate$
       Pattern(AnyArgMatches(<<RCat(<<RBol, RLit(<<"g","e","n","e","r","a","t","e">>), REol>>)>>), "ask") >>),
     Rule(<<"r","u","s","t","u","p">>, "allow", << >>),
     Rule(<<"t","s","c">>, "allow", << >>),
     Rule(<<"t","u","r","b","o">>, "allow", << >>),
     Rule(<<"n","x">>, "allow", << >>),
     Rule(<<"l","e","r","n","a">>, "allow", << >>),
     Rule(<<"d","o","c","k","e","r">>, "ask", <<
       \* ^(ps|images|logs|inspect|stats|top|version|info)$
       Pattern(AnyArgMatches(<<RCat(<<RBol, RAny(<<RLit(<<"p","s">>), RLit(<<"i","m","a","g","e","s">>), RLit(<<"l","o","g","s">>), RLit(<<"i","n","s","p","e","c","t">>), RLit(<<"s","t","a","t","s">>), RLit(<<"t","o","p">>), RLit(<<"v","e","r","s","i","o","n">>), RLit(<<"i","n","f","o">>)>>), REol>>)>>), "allow"),
       \* ^(build|run|compose|exec|pull|stop|start|restart|create)$
       Pattern(AnyArgMatches(<<RCat(<<RBol, RAny(<<RLit(<<"b","u","i","l","d">>), RLit(<<"r","u","n">>), RLit(<<"c","o","m","p","o","s","e">>), RLit(<<"e","x","e","c">>), RLit(<<"p","u","l","l">>), RLit(<<"s","t","o","p">>), RLit(<<"s","t","a","r","t">>), RLit(<<"r","e","s","t","a","r","t">>), RLit(<<"c","r","e","a","t","e">>)>>), REol>>)>>), "ask"),
       \* ^(system\s+prune|container\s+prune|image\s+prune)$
       Pattern(AnyArgMatches(<<RCat(<<RBol, RAny(<<RCat(<<RLit(<<"s","y","s","t","e","m">>), RPlus(RSet(SpaceChar)), RLit(<<"p","r","u","n","e">>)>>), RCat(<<RLit(<<"c","o","n","t","a","i","n","e","r">>), RPlus(RSet(SpaceChar)), RLit(<<"p","r","u","n","e">>)>>), RCat(<<RLit(<<"i","m","a","g","e">>), RPlus(RSet(SpaceChar)), RLit(<<"p","r","u","n","e">>)>>)>>), REol>>)>>), "ask") >>),
     Rule(<<"d","o","c","k","e","r","-","c","o","m","p","o","s","e">>, "ask", << >>),
     Rule(<<"k","u","b","e","c","t","l">>, "ask", << >>),
     Rule(<<"r","m">>, "ask", <<
       \* -[^\s]*r[^\s]*f|-[^\s]*f[^\s]*r
       Pattern(ArgsMatch(<<RAny(<<RCat(<<RChr("-"), RStar(RNotSet(SpaceChar)), RChr("r"), RStar(RNotSet(SpaceChar)), RChr("f")>>),
                         RCat(<<RChr("-"), RStar(RNotSet(SpaceChar)), RChr("f"), RStar(RNotSet(SpaceChar)), RChr("r")>>)>>)>>), "ask"),
       \* -[^\s]*r
       Pattern(ArgsMatch(<<RCat(<<RChr("-"), RStar(RNotSet(SpaceChar)), RChr("r")>>)>>), "ask"),
       Pattern(ArgCountMax(3), "allow") >>),
     Rule(<<"m","k","d","i","r">>, "allow", << >>),
     Rule(<<"t","o","u","c","h">>, "allow", << >>),
     Rule(<<"c","p">>, "allow", << >>),
     Rule(<<"m","v">>, "allow", << >>),
     Rule(<<"l","n">>, "allow", << >>),
     Rule(<<"c","h","m","o","d">>, "ask", <<
       \* -R\s+777
       Pattern(ArgsMatch(<<RCat(<<RLit(<<"-","R">>), RPlus(RSet(SpaceChar)), RLit(<<"7","7","7">>)>>)>>), "deny") >>),
     Rule(<<"c","h","o","w","n">>, "ask", << >>),
     Rule(<<"c","u","r","l">>, "allow", << >>),
     Rule(<<"w","g","e","t">>, "allow", << >>),
     Rule(<<"s","s","h">>, "ask", << >>),
     Rule(<<"s","c","p">>, "ask", << >>),
     Rule(<<"r","s","y","n","c">>, "ask", << >>),
     Rule(<<"b","r","e","w">>, "allow", << >>),
     Rule(<<"a","p","t">>, "ask", << >>),
     Rule(<<"a","p","t","-","g","e","t">>, "ask", << >>),
     Rule(<<"y","u","m">>, "ask", << >>),
     Rule(<<"d","n","f">>, "ask", << >>),
     Rule(<<"p","a","c","m","a","n">>, "ask", << >>),
     Rule(<<"t","e","r","r","a","f","o","r","m">>, "ask", <<
       \* ^(plan|validate|fmt|show|state|output|providers|version|graph|console)$
       Pattern(AnyArgMatches(<<RCat(<<RBol, RAny(<<RLit(<<"p","l","a","n">>), RLit(<<"v","a","l","i","d","a","t","e">>), RLit(<<"f","m","t">>), RLit(<<"s","h","o","w">>), RLit(<<"s","t","a","t","e">>), RLit(<<"o","u","t","p","u","t">>), RLit(<<"p","r","o","v","i","d","e","r","s">>), RLit(<<"v","e","r","s","i","o","n">>), RLit(<<"g","r","a","p","h">>), RLit(<<"c","o","n","s","o","l","e">>)>>), REol>>)>>), "allow") >>) >>

DEFAULT_CONFIG ==
  [defaultDecision |-> "ask",
   askOnSubshell |-> TRUE,
   trustedSSHHosts |-> << >>,
   trustedDockerContainers |-> << >>,
   trustedKubectlContexts |-> << >>,
   trustedSprites |-> << >>,
   layers |-> << [alwaysAllow |-> DEFAULT_alwaysAllow,
                  alwaysDeny |-> DEFAULT_alwaysDeny,
                  rules |-> DEFAULT_rules] >>]

(***************************************************************************)
(* The rule matcher, the layered evaluator, the pipeline combiner and the  *)
(* merge of the configuration sources, as the specification of the         *)
(* repository states them (sections 4.2 to 4.5).                           *)
(***************************************************************************)

Range(f) == {f[i] : i \in DOMAIN f}

\* fullmatch(r, a)
FullMatch(r, a) == (Len(a) + 1) \in Ends(r, a, 1)

\* the AND of the predicates present in the match specification, inverted by not
matchSpec(m, inv) ==
  LET anyArg == m.anyArgMatches = << >>
                \/ \E a \in Range(inv.args), r \in Range(m.anyArgMatches) : FullMatch(r, a)
      args   == m.argsMatch = << >>
                \/ \E r \in Range(m.argsMatch) : RegexTest(r, inv.raw)
      noArgs == m.noArgs = << >> \/ (m.noArgs[1] = (Len(inv.args) = 0))
      count  == m.argCount = << >>
                \/ /\ (m.argCount[1].min = << >> \/ m.argCount[1].min[1] <= Len(inv.args))
                   /\ (m.argCount[1].max = << >> \/ Len(inv.args) <= m.argCount[1].max[1])
      all    == anyArg /\ args /\ noArgs /\ count
  IN  IF m.not THEN ~all ELSE all

\* the first matching pattern wins; the rule's default when none matches
evaluateRule(rule, inv) ==
  LET hits == {i \in 1..Len(rule.argPatterns) : matchSpec(rule.argPatterns[i].match, inv)}
  IN  IF hits = {} THEN rule.default ELSE rule.argPatterns[Min(hits)].decision

\* the indices of the rules whose command equals the invocation's command
matchingRules(rules, inv) == {i \in 1..Len(rules) : rules[i].command = inv.command}

\* evaluateInvocation that consults alwaysAllow before alwaysDeny
evaluateInvocationAllowFirst(inv, cfg, original) ==
  IF \E g \in cfg.globalDeny : RegexTest(g.pattern, original)
    THEN [decision |-> "deny", layer |-> "globalDeny"]
  ELSE IF inv.command \in cfg.alwaysAllow
    THEN [decision |-> "allow", layer |-> "alwaysAllow"]
  ELSE IF inv.command \in cfg.alwaysDeny
    THEN [decision |-> "deny", layer |-> "alwaysDeny"]
  ELSE IF matchingRules(cfg.rules, inv) # {}
    THEN [decision |-> evaluateRule(cfg.rules[Min(matchingRules(cfg.rules, inv))], inv),
          layer |-> "rule"]
  ELSE [decision |-> cfg.defaultDecision, layer |-> "default"]

\* global deny -> alwaysDeny -> alwaysAllow -> first matching rule -> default
evaluateInvocation(inv, cfg, original) ==
  IF \E g \in cfg.globalDeny : RegexTest(g.pattern, original)
    THEN [decision |-> "deny", layer |-> "globalDeny"]
  ELSE IF inv.command \in cfg.alwaysDeny
    THEN [decision |-> "deny", layer |-> "alwaysDeny"]
  ELSE IF inv.command \in cfg.alwaysAllow
    THEN [decision |-> "allow", layer |-> "alwaysAllow"]
  ELSE IF matchingRules(cfg.rules, inv) # {}
    THEN [decision |-> evaluateRule(cfg.rules[Min(matchingRules(cfg.rules, inv))], inv),
          layer |-> "rule"]
  ELSE [decision |-> cfg.defaultDecision, layer |-> "default"]

Rank(d) == CASE d = "allow" -> 0 [] d = "ask" -> 1 [] d = "deny" -> 2

\* max under allow < ask < deny
MaxDecision(a, b) == IF Rank(a) >= Rank(b) THEN a ELSE b

RECURSIVE reduceDecisions(_, _)
reduceDecisions(ds, result) ==
  IF ds = << >> THEN result
  ELSE reduceDecisions(Tail(ds), MaxDecision(result, ds[1].decision))

\* combine without the step that forces ask on a parse error
combineNoForce(ds, pr, cfg) ==
  LET reduced  == reduceDecisions(ds, "allow")
      promoted == IF pr.hasSubshell /\ cfg.askOnSubshell /\ reduced = "allow"
                  THEN "ask" ELSE reduced
  IN  IF pr.commands = << >> /\ ~pr.parseError THEN "allow" ELSE promoted

\* the pipeline combiner, its steps in the order the specification lists them
combine(ds, pr, cfg) ==
  LET reduced  == reduceDecisions(ds, "allow")
      promoted == IF pr.hasSubshell /\ cfg.askOnSubshell /\ reduced = "allow"
                  THEN "ask" ELSE reduced
      forced   == IF pr.parseError THEN "ask" ELSE promoted
  IN  IF pr.commands = << >> /\ ~pr.parseError THEN "allow" ELSE forced

\* the per-invocation results for a parse result
evaluateAll(pr, cfg, original) ==
  [i \in 1..Len(pr.commands) |-> evaluateInvocation(pr.commands[i], cfg, original)]

\* a configuration file: each scalar << >> when the key is absent
SourceFile(defaultDecision, askOnSubshell, alwaysAllow, alwaysDeny, globalDeny, rules) ==
  [defaultDecision |-> defaultDecision, askOnSubshell |-> askOnSubshell,
   alwaysAllow |-> alwaysAllow, alwaysDeny |-> alwaysDeny,
   globalDeny |-> globalDeny, rules |-> rules]

NoFile == SourceFile(<< >>, << >>, << >>, << >>, << >>, << >>)

RECURSIVE LayerField(_, _)
LayerField(layers, f) ==
  IF layers = << >> THEN << >> ELSE layers[1][f] \o LayerField(Tail(layers), f)

\* mergeConfig that appends the rules in the order defaults, user, project
mergeConfigDefaultsFirst(project, user, defaults) ==
  [defaultDecision |->
     IF project.defaultDecision # << >> THEN project.defaultDecision[1]
     ELSE IF user.defaultDecision # << >> THEN user.defaultDecision[1]
     ELSE defaults.defaultDecision,
   askOnSubshell |->
     IF project.askOnSubshell # << >> THEN project.askOnSubshell[1]
     ELSE IF user.askOnSubshell # << >> THEN user.askOnSubshell[1]
     ELSE defaults.askOnSubshell,
   alwaysAllow |-> Range(project.alwaysAllow) \cup Range(user.alwaysAllow)
                   \cup Range(LayerField(defaults.layers, "alwaysAllow")),
   alwaysDeny  |-> Range(project.alwaysDeny) \cup Range(user.alwaysDeny)
                   \cup Range(LayerField(defaults.layers, "alwaysDeny")),
   globalDeny  |-> Range(project.globalDeny) \cup Range(user.globalDeny),
   rules       |-> LayerField(defaults.layers, "rules") \o user.rules \o project.rules]

\* project over user over the built-in defaults: scalars replaced, lists
\* united, rules listed project first, then user, then defaults
mergeConfig(project, user, defaults) ==
  [defaultDecision |->
     IF project.defaultDecision # << >> THEN project.defaultDecision[1]
     ELSE IF user.defaultDecision # << >> THEN user.defaultDecision[1]
     ELSE defaults.defaultDecision,
   askOnSubshell |->
     IF project.askOnSubshell # << >> THEN project.askOnSubshell[1]
     ELSE IF user.askOnSubshell # << >> THEN user.askOnSubshell[1]
     ELSE defaults.askOnSubshell,
   alwaysAllow |-> Range(project.alwaysAllow) \cup Range(user.alwaysAllow)
                   \cup Range(LayerField(defaults.layers, "alwaysAllow")),
   alwaysDeny  |-> Range(project.alwaysDeny) \cup Range(user.alwaysDeny)
                   \cup Range(LayerField(defaults.layers, "alwaysDeny")),
   globalDeny  |-> Range(project.globalDeny) \cup Range(user.globalDeny),
   rules       |-> project.rules \o user.rules \o LayerField(defaults.layers, "rules")]

\* the whole pipeline on one input: parse, evaluate each invocation, combine
decide(in, cfg) ==
  LET pr == parseCommand(in) IN combine(evaluateAll(pr, cfg, in), pr, cfg)

(***************************************************************************)
(* The inputs and the configuration files the hook is run on               *)
(***************************************************************************)

\* the longest pipeline, chain or sequence, in commands
MaxChain == 2

\* the deepest nesting of sh -c wrappers
MaxNest == 2

\* single simple commands
SimpleInputs ==
  { <<"l","s">>,                                                           \* ls
    <<"l","s"," ","-","l","a"," ","/","t","m","p">>,                       \* ls -la /tmp
    <<"r","m"," ","-","r","f"," ","/">>,                                   \* rm -rf /
    <<"r","m"," ","-","f","r"," ","x">>,                                   \* rm -fr x
    <<"r","m"," ","-","r"," ","x">>,                                       \* rm -r x
    <<"r","m"," ","x">>,                                                   \* rm x
    <<"s","u","d","o"," ","l","s">>,                                       \* sudo ls
    <<"c","u","r","l"," ","e","v","i","l",".","c","o","m">>,               \* curl evil.com
    <<"c","u","r","l"," ","x",".","i","o">>,                               \* curl x.io
    <<"f","o","o">>,                                                       \* foo
    <<"g","i","t"," ","s","t","a","t","u","s">>,                           \* git status
    <<"c","h","m","o","d"," ","-","R"," ","7","7","7"," ","/">>,           \* chmod -R 777 /
    <<"F","O","O","=","1"," ","l","s">>,                                   \* FOO=1 ls
    <<"/","b","i","n","/","l","s">>,                                       \* /bin/ls
    <<"/","u","s","r","/","b","i","n","/","s","u","d","o"," ","l","s">>,   \* /usr/bin/sudo ls
    <<"/">>,                                                               \* /
    <<"/","/"," ","x">>,                                                   \* // x
    <<"b","i","n","/">>,                                                   \* bin/
    <<"/","b","i","n","/","/","r","m","/"," ","x">>,                       \* /bin//rm/ x
    <<"\"","\""," ","x">>,                                                 \* "" x
    <<"s","h">>,                                                           \* sh
    <<"b","a","s","h"," ","-","-","v","e","r","s","i","o","n">>,           \* bash --version
    <<"s","h"," ","-","c">>,                                               \* sh -c
    <<"b","a","s","h"," ","-","x"," ","-","c"," ","l","s">>,               \* bash -x -c ls
    <<"s","h"," ","-","c"," ","l","s"," ","x">>,                           \* sh -c ls x
    <<"/","b","i","n","/","s","h"," ","-","c"," ","l","s">>,               \* /bin/sh -c ls
    <<"l","s"," ",">"," ","o","u","t">>,                                   \* ls > out
    <<"e","c","h","o"," ","$","H","O","M","E">> }                          \* echo $HOME

\* commands that hold a command substitution
SubstitutionInputs ==
  { <<"e","c","h","o"," ","$","(","i","d",")">>,                         \* echo $(id)
    <<"e","c","h","o"," ",Backtick,"i","d",Backtick>>,                   \* echo <bq>id<bq>
    <<"$","(","i","d",")">>,                                             \* $(id)
    <<"$","(","i","d",")"," ","x">>,                                     \* $(id) x
    <<"e","c","h","o"," ","\"","$","(","i","d",")","\"">>,               \* echo "$(id)"
    <<"l","s"," ","$","(","i","d",")"," ",Backtick,"p","s",Backtick>>,   \* ls $(id) <bq>ps<bq>
    <<"X","=","$","(","i","d",")"," ","l","s">>,                         \* X=$(id) ls
    <<"X","=","$","(","i","d",")">>,                                     \* X=$(id)
    <<"X","=",Backtick,"i","d",Backtick," ","l","s">>,                   \* X=<bq>id<bq> ls
    <<"l","s"," ",">"," ","$","(","i","d",")">>,                         \* ls > $(id)
    <<"l","s"," ",">",Backtick,"i","d",Backtick>>,                       \* ls ><bq>id<bq>
    <<"e","c","h","o"," ","'","$","(","i","d",")","'">> }                \* echo '$(id)'

\* the commands the pipelines, chains and sequences are built from
ChainAtoms ==
  { <<"l","s">>,                       \* ls
    <<"s","u","d","o"," ","l","s">>,   \* sudo ls
    <<"r","m"," ","x">> }              \* rm x

\* | && || ; and a newline
ChainOps ==
  { <<" ","|"," ">>,       \*  |
    <<" ","&","&"," ">>,   \*  &&
    <<" ","|","|"," ">>,   \*  ||
    <<" ",";"," ">>,       \*  ;
    <<"\n">> }             \* '\n'

\* the commands put inside the compound commands
CompoundAtoms ==
  { <<"l","s">>,                           \* ls
    <<"r","m"," ","-","r","f"," ","/">>,   \* rm -rf /
    <<"s","u","d","o"," ","l","s">> }      \* sudo ls

\* inputs with a heredoc
HeredocInputs ==
  { <<"c","a","t"," ","<","<","E","O","F","\n","h","i","\n","E","O","F">>,   \* cat <<EOF\nhi\nEOF
    <<"c","a","t"," ","<","<","-","E","O","F","\n","h","i","\n","E","O","F">>, \* cat <<-EOF\nhi\nEOF
    <<"s","u","d","o"," ","t","e","e"," ","x"," ","<","<"," ","'","E","O","F","'","\n","h","i","\n","E","O","F">>, \* sudo tee x << 'EOF'\nhi\nEOF
    <<"l","s"," ","|"," ","c","a","t"," ","<","<","E","O","F","\n","h","i","\n","E","O","F">>, \* ls | cat <<EOF\nhi\nEOF
    <<"c","a","t"," ","<","<","E","O","F"," ","&","&"," ","s","u","d","o"," ","l","s","\n","h","i","\n","E","O","F">>, \* cat <<EOF && sudo ls\nhi\nEOF
    <<"\n","c","a","t"," ","<","<","E","O","F","\n","h","i","\n","E","O","F">>, \* \ncat <<EOF\nhi\nEOF
    <<"l","s","\n","s","u","d","o"," ","t","e","e"," ","x"," ","<","<","E","O","F","\n","h","i","\n","E","O","F">>, \* ls\nsudo tee x <<EOF\nhi\nEOF
    <<"("," ","c","a","t"," ","<","<","E","O","F","\n","h","i","\n","E","O","F","\n",")">>, \* ( cat <<EOF\nhi\nEOF\n)
    <<"i","f"," ","l","s",";"," ","t","h","e","n"," ","c","a","t"," ","<","<","E","O","F","\n","h","i","\n","E","O","F","\n","f","i">>, \* if ls; then cat <<EOF\nhi\nEOF\nfi
    <<"c","a","t"," ","<","<","E","O","F","\n","i","t","'","s","\n","E","O","F">>, \* cat <<EOF\nit's\nEOF
    <<"<","<","E","O","F","\n","'">>,                                        \* <<EOF\n'
    <<"l","s"," ","|"," ","<","<","E","O","F","\n","'">>,                    \* ls | <<EOF\n'
    <<"s","u","d","o"," ","t","e","e"," ","x"," ","<","<","E","O","F","\n","(","\n","E","O","F">>, \* sudo tee x <<EOF\n(\nEOF
    <<"e","c","h","o"," ","$","(","i","d",")"," ","<","<","E","O","F","\n","h","i","\n","E","O","F">>, \* echo $(id) <<EOF\nhi\nEOF
    <<"c","a","t"," ","<","<","E","O","F","\n","$","(","i","d",")","\n","E","O","F">>, \* cat <<EOF\n$(id)\nEOF
    <<"g","h"," ","p","r"," ","-","-","b","o","d","y"," ","\"","$","(","c","a","t"," ","<","<","E","O","F","\n","h","i","\n","E","O","F","\n",")","\"">>, \* gh pr --body "$(cat <<EOF\nhi\nEOF\n)"
    <<"e","c","h","o"," ","$","(","c","a","t"," ","<","<","'","E","O","F","'","\n","$","(","i","d",")","\n","E","O","F","\n",")">>, \* echo $(cat <<'EOF'\n$(id)\nEOF\n)
    <<"e","c","h","o"," ","$","(","c","a","t"," ","<","<","E","O","F","\n","h","i","\n","E","O","F","\n",")"," ","$","(","i","d",")">> } \* echo $(cat <<EOF\nhi\nEOF\n) $(id)

\* inputs the shell grammar rejects
BadInputs ==
  { <<"l","s"," ","|">>,                \* ls |
    <<"'">>,                            \* '
    <<"l","s"," ","&","&">>,            \* ls &&
    <<"(">>,                            \* (
    <<"e","c","h","o"," ","$","(">>,    \* echo $(
    <<"l","s"," ",")">>,                \* ls )
    <<"i","f"," ","l","s">>,            \* if ls
    <<";"," ","l","s">>,                \* ; ls
    <<"("," ",")">>,                    \* ( )
    <<"e","c","h","o"," ","\"","x">> }  \* echo "x

\* empty and whitespace-only inputs
BlankInputs ==
  { << >>,              \*
    <<" ">>,            \* ' '
    <<"\n">>,           \* '\n'
    <<" ","\t"," ">> }  \* ' \t '

\* the inputs wrapped more than once
NestCore ==
  { <<"l","s">>,                                                             \* ls
    <<"s","u","d","o"," ","l","s">>,                                         \* sudo ls
    <<"r","m"," ","-","r","f"," ","/">>,                                     \* rm -rf /
    <<"e","c","h","o"," ","$","(","i","d",")">>,                             \* echo $(id)
    <<"l","s"," ","|">>,                                                     \* ls |
    <<"i","f"," ","l","s",";"," ","t","h","e","n"," ","l","s",";"," ","f","i">>, \* if ls; then ls; fi
    << >> }                                                                  \*

RECURSIVE Chains(_, _)
Chains(op, n) ==
  IF n = 1 THEN ChainAtoms
  ELSE {a \o op \o c : a \in ChainAtoms, c \in Chains(op, n - 1)}

ChainInputs == UNION {Chains(op, n) : op \in ChainOps, n \in 2..MaxChain}

Str_if == <<"i","f"," ">>
Str_then == <<";"," ","t","h","e","n"," ">>
Str_fi == <<";"," ","f","i">>
Str_do == <<";"," ","d","o"," ">>
Str_done == <<";"," ","d","o","n","e">>

\* ( A )   { A ; }   if A ; then A ; fi   while A ; do A ; done
\* until A ; do A ; done   for x in a ; do A ; done   f() { A ; }
CompoundsOf(a) ==
  { <<"("," ">> \o a \o <<" ",")">>,
    <<"{"," ">> \o a \o <<" ",";"," ","}">>,
    Str_if \o a \o Str_then \o a \o Str_fi,
    <<"w","h","i","l","e"," ">> \o a \o Str_do \o a \o Str_done,
    <<"u","n","t","i","l"," ">> \o a \o Str_do \o a \o Str_done,
    <<"f","o","r"," ","x"," ","i","n"," ","a">> \o Str_do \o a \o Str_done,
    <<"f","(",")"," ","{"," ">> \o a \o <<" ",";"," ","}">> }

\* a compound command inside a brace group, and after a pipe or &&
CompoundInputs ==
  LET one == UNION {CompoundsOf(a) : a \in CompoundAtoms}
  IN  one
      \cup {<<"{"," ">> \o c \o <<" ",";"," ","}">> : c \in CompoundsOf(<<"l","s">>)}
      \cup {<<"l","s"," ","|"," ">> \o c : c \in CompoundsOf(<<"l","s">>)}
      \cup {<<"l","s"," ","&","&"," ">> \o c : c \in CompoundsOf(<<"s","u","d","o"," ","l","s">>)}
      \cup {<<"{"," ">> \o c \o <<" ",";"," ","}">> : c \in SubstitutionInputs}

RECURSIVE Escape(_)
Escape(x) ==
  IF x = << >> THEN << >>
  ELSE (IF x[1] \in DQEscapable THEN <<"\\", x[1]>> ELSE <<x[1]>>) \o Escape(Tail(x))

\* the input w -c "x"
Wrap(w, x) == w \o <<" ","-","c"," ","\"">> \o Escape(x) \o <<"\"">>

RECURSIVE NestOf(_, _)
NestOf(S, n) ==
  IF n = 0 THEN S ELSE {Wrap(w, x) : w \in Shells, x \in NestOf(S, n - 1)}

WrapCore ==
  SimpleInputs \cup SubstitutionInputs \cup HeredocInputs \cup BadInputs
  \cup BlankInputs \cup CompoundsOf(<<"l","s">>)
  \cup Chains(<<" ","&","&"," ">>, 2)

WrappedInputs ==
  NestOf(WrapCore, 1) \cup UNION {NestOf(NestCore, n) : n \in 2..MaxNest}

\* a wrapper inside a pipeline, a chain and a subshell, and a nested wrapper
\* of four $(cat <<E ... E) with an empty body, each shorter than its placeholder
MixedInputs ==
  LET w == Wrap(<<"s","h">>, <<"l","s"," ","&","&"," ","s","u","d","o"," ","l","s">>)
      h == <<"$","(","c","a","t"," ","<","<","E","\n","\n","E",")">>
  IN  { <<"r","m"," ","x"," ","|"," ">> \o w,
        w \o <<" ","&","&"," ","r","m"," ","x">>,
        <<"("," ">> \o w \o <<" ",")">>,
        <<"s","h"," ","-","c"," ","\"","s","h"," ","-","c"," ","\\","\"">>
          \o h \o h \o h \o h \o <<"\\","\"","\"">> }

\* the command strings wrapped inside a chain
SandwichCore ==
  { <<"l","s">>,                                                                  \* ls
    <<"l","s"," ","&","&"," ","s","u","d","o"," ","l","s">>,                      \* ls && sudo ls
    <<"e","c","h","o"," ","$","(","i","d",")">>,                                  \* echo $(id)
    <<"("," ","l","s"," ",")">>,                                                  \* ( ls )
    <<"l","s"," ","|">>,                                                          \* ls |
    <<>>,                                                                         \* 
    <<"i","f"," ","l","s",";"," ","t","h","e","n"," ","l","s",";"," ","f","i">>,  \* if ls; then ls; fi
    <<"c","a","t"," ","<","<","E","O","F","\n","h","i","\n","E","O","F">>,        \* cat <<EOF\nhi\nEOF
    <<"r","m"," ","x"," ","|"," ","f","o","o">>                                   \* rm x | foo
  } \cup {Wrap(<<"s","h">>, <<"l","s"," ","|">>), Wrap(<<"b","a","s","h">>, <<"s","u","d","o"," ","l","s">>)}

\* the commands to the left and to the right of the wrapper
SandwichLeft == { <<"f","o","o"," ","-","a">>, <<"e","c","h","o"," ","$","(","p","w","d",")">> }

SandwichRight == { <<"r","m"," ","x">> }

\* left && w -c "X" || right, with its parts
Sandwiches ==
  { [input |-> L \o <<" ","&","&"," ">> \o Wrap(w, X) \o <<" ","|","|"," ">> \o R,
     left |-> L, w |-> w, X |-> X, right |-> R] :
    L \in SandwichLeft, w \in Shells, X \in SandwichCore, R \in SandwichRight }

SandwichInputs == {p.input : p \in Sandwiches}

\* invocations the built-in rules for package managers, docker and git decide
RuleInputs ==
  { <<"n","p","m"," ","p","u","b","l","i","s","h">>,                                                                                                                               \* npm publish
    <<"n","p","m"," ","i","n","s","t","a","l","l"," ","l","o","d","a","s","h">>,                                                                                                   \* npm install lodash
    <<"n","p","m"," ","i","n","s","t","a","l","l"," ","p","u","b","l","i","s","h">>,                                                                                               \* npm install publish
    <<"n","p","m"," ","p","u","b","l","i","s","h"," ","-","-","h","e","l","p">>,                                                                                                   \* npm publish --help
    <<"n","p","m"," ","l","o","g","i","n">>,                                                                                                                                       \* npm login
    <<"p","n","p","m"," ","p","u","b","l","i","s","h">>,                                                                                                                           \* pnpm publish
    <<"p","n","p","m"," ","i","n","s","t","a","l","l"," ","l","o","d","a","s","h">>,                                                                                               \* pnpm install lodash
    <<"p","n","p","m"," ","i","n","s","t","a","l","l"," ","p","u","b","l","i","s","h">>,                                                                                           \* pnpm install publish
    <<"p","n","p","m"," ","p","u","b","l","i","s","h"," ","-","-","h","e","l","p">>,                                                                                               \* pnpm publish --help
    <<"p","n","p","m"," ","l","o","g","i","n">>,                                                                                                                                   \* pnpm login
    <<"y","a","r","n"," ","p","u","b","l","i","s","h">>,                                                                                                                           \* yarn publish
    <<"y","a","r","n"," ","i","n","s","t","a","l","l"," ","l","o","d","a","s","h">>,                                                                                               \* yarn install lodash
    <<"y","a","r","n"," ","i","n","s","t","a","l","l"," ","p","u","b","l","i","s","h">>,                                                                                           \* yarn install publish
    <<"y","a","r","n"," ","p","u","b","l","i","s","h"," ","-","-","h","e","l","p">>,                                                                                               \* yarn publish --help
    <<"y","a","r","n"," ","l","o","g","i","n">>,                                                                                                                                   \* yarn login
    <<"b","u","n"," ","p","u","b","l","i","s","h">>,                                                                                                                               \* bun publish
    <<"b","u","n"," ","i","n","s","t","a","l","l"," ","l","o","d","a","s","h">>,                                                                                                   \* bun install lodash
    <<"b","u","n"," ","i","n","s","t","a","l","l"," ","p","u","b","l","i","s","h">>,                                                                                               \* bun install publish
    <<"b","u","n"," ","p","u","b","l","i","s","h"," ","-","-","h","e","l","p">>,                                                                                                   \* bun publish --help
    <<"b","u","n"," ","l","o","g","i","n">>,                                                                                                                                       \* bun login
    <<"d","o","c","k","e","r"," ","p","s">>,                                                                                                                                       \* docker ps
    <<"d","o","c","k","e","r"," ","r","u","n"," ","i","m","g">>,                                                                                                                   \* docker run img
    <<"d","o","c","k","e","r"," ","e","x","e","c"," ","w","e","b"," ","p","s">>,                                                                                                   \* docker exec web ps
    <<"d","o","c","k","e","r"," ","r","u","n"," ","-","-","r","m"," ","i","m","g"," ","t","o","p">>,                                                                               \* docker run --rm img top
    <<"d","o","c","k","e","r"," ","c","o","m","p","o","s","e"," ","l","o","g","s">>,                                                                                               \* docker compose logs
    <<"d","o","c","k","e","r"," ","b","u","i","l","d"," ",".">>,                                                                                                                   \* docker build .
    <<"g","i","t"," ","p","u","s","h"," ","-","-","f","o","r","c","e"," ","o","r","i","g","i","n"," ","m","a","i","n">>,                                                           \* git push --force origin main
    <<"g","i","t"," ","p","u","s","h"," ","o","r","i","g","i","n"," ","m","a","i","n"," ","-","-","f","o","r","c","e">>,                                                           \* git push origin main --force
    <<"g","i","t"," ","p","u","s","h"," ","o","r","i","g","i","n"," ","m","a","i","n"," ","-","f">>,                                                                               \* git push origin main -f
    <<"g","i","t"," ","p","u","s","h"," ","-","f">>,                                                                                                                               \* git push -f
    <<"g","i","t"," ","p","u","s","h"," ","o","r","i","g","i","n"," ","m","a","i","n">>,                                                                                           \* git push origin main
    <<"g","i","t"," ","r","e","s","e","t"," ","-","-","h","a","r","d">>,                                                                                                           \* git reset --hard
    <<"g","i","t"," ","r","e","s","e","t"," ","H","E","A","D","~","1"," ","-","-","h","a","r","d">>,                                                                               \* git reset HEAD~1 --hard
    <<"g","i","t"," ","c","l","e","a","n"," ","-","f","d">>,                                                                                                                       \* git clean -fd
    <<"g","i","t"," ","s","t","a","t","u","s"," ","&","&"," ","g","i","t"," ","p","u","s","h"," ","-","-","f","o","r","c","e"," ","o","r","i","g","i","n"," ","m","a","i","n">>,   \* git status && git push --force origin main
    <<"g","i","t"," ","s","t","a","t","u","s"," ","&","&"," ","g","i","t"," ","p","u","s","h"," ","o","r","i","g","i","n"," ","m","a","i","n"," ","-","-","f","o","r","c","e">> }  \* git status && git push origin main --force

Inputs ==
  SimpleInputs \cup SubstitutionInputs \cup HeredocInputs \cup BadInputs
  \cup BlankInputs \cup ChainInputs \cup CompoundInputs \cup WrappedInputs
  \cup MixedInputs \cup RuleInputs
  \cup SandwichInputs

W_rm == <<"r","m">>
W_ls == <<"l","s">>
W_curl == <<"c","u","r","l">>
W_foo == <<"f","o","o">>
W_sudo == <<"s","u","d","o">>
W_git == <<"g","i","t">>
W_sh == <<"s","h">>

\* ^rm\s+-rf
RxRmRfAtStart ==
  RCat(<<RBol, RLit(<<"r","m">>), RPlus(RSet(SpaceChar)), RLit(<<"-","r","f">>)>>)

\* curl.*evil\.com
RxCurlEvil ==
  RCat(<<RLit(<<"c","u","r","l">>), RStar(RDot), RLit(<<"e","v","i","l",".","c","o","m">>)>>)

\* a file that allows by default and contradicts the built-in lists and rules
FileA ==
  SourceFile(<<"allow">>, << >>, <<W_rm, W_curl>>, <<W_curl, W_foo>>,
             <<[pattern |-> RxCurlEvil]>>,
             <<Rule(W_curl, "allow", << >>), Rule(W_rm, "deny", << >>),
               Rule(W_git, "deny", << >>)>>)

\* a file that denies by default, turns askOnSubshell off and has a global
\* deny pattern anchored at the start of the input
FileB ==
  SourceFile(<<"deny">>, <<FALSE>>, <<W_sudo, W_sh>>, <<W_ls>>,
             <<[pattern |-> RxRmRfAtStart]>>,
             <<Rule(W_rm, "allow", << >>), Rule(W_foo, "ask", << >>)>>)

\* a file with rules only
FileC ==
  SourceFile(<< >>, << >>, << >>, << >>, << >>,
             <<Rule(W_rm, "allow", <<Pattern(ArgsMatch(<<RLit(<<"-","r">>)>>), "deny")>>),
               Rule(W_curl, "deny", << >>), Rule(W_foo, "allow", << >>),
               Rule(W_rm, "ask", << >>)>>)

\* the configuration files, by name
File(name) ==
  CASE name = "none" -> NoFile
    [] name = "A" -> FileA
    [] name = "B" -> FileB
    [] name = "C" -> FileC

FileNames == {"none", "A", "B", "C"}

\* the merged view of each pair of a project file and a user file
MergedViews ==
  [p \in FileNames, u \in FileNames |-> mergeConfig(File(p), File(u), DEFAULT_CONFIG)]

\* the configuration the variable config stands for: config names the files
\* that were merged
Cfg(c) == MergedViews[c.project, c.user]

(***************************************************************************)
(* The hook: load the configuration, parse the command, evaluate each      *)
(* invocation, combine.                                                    *)
(***************************************************************************)

None == [none |-> TRUE]

Init ==
  /\ pc = "start"
  /\ input \in Inputs
  /\ sources \in [project : FileNames, user : FileNames]
  /\ config = None
  /\ parsed = None
  /\ details = << >>
  /\ final = "none"
  /\ calls = << >>

LoadConfig ==
  /\ pc = "start"
  /\ config' = sources
  /\ pc' = "loaded"
  /\ UNCHANGED <<input, sources, parsed, details, final, calls>>

Parse ==
  /\ pc = "loaded"
  /\ parsed' = parseCommand(input)
  /\ pc' = "parsed"
  /\ UNCHANGED <<input, sources, config, details, final, calls>>

Evaluate ==
  /\ pc = "parsed"
  /\ ~parsed.threw
  /\ details' = evaluateAll(parsed, Cfg(config), input)
  /\ pc' = "evaluated"
  /\ UNCHANGED <<input, sources, config, parsed, final, calls>>

Combine ==
  /\ pc = "evaluated"
  /\ final' = combine(details, parsed, Cfg(config))
  /\ pc' = "done"
  /\ UNCHANGED <<input, sources, config, parsed, details, calls>>

Next == LoadConfig \/ Parse \/ Evaluate \/ Combine

Spec == Init /\ [][Next]_vars

(***************************************************************************)
(* Properties of the combiner and of the parser                            *)
(***************************************************************************)

Parsed == pc \in {"parsed", "evaluated", "done"}

HasDeny == \E i \in DOMAIN details : details[i].decision = "deny"

\* C1 deny dominance: when at least one invocation of the input is decided
\* deny, the final decision is deny, whatever the other decisions, hasSubshell
\* and askOnSubshell are.
C1_DenyDominance == pc = "done" /\ HasDeny => final = "deny"

\* a denied invocation next to one that is not denied, in a tainted input
C1_Witness ==
  /\ pc = "done" /\ HasDeny /\ final = "deny"
  /\ \E i \in DOMAIN details : details[i].decision # "deny"
  /\ parsed.hasSubshell

\* every node of the tree under a node, the word expansions left out
RECURSIVE NodeSet(_)
NodeSet(node) == {node} \cup UNION {NodeSet(c) : c \in Range(Children(node))}

\* the syntax tree the walk of parseCommand starts from, when there is one
AstOf(in) == parse(preprocessCatHeredocs(in))

AstNodes(in) == UNION {NodeSet(c) : c \in Range(AstOf(in).ast.commands)}

\* the command substitutions of the words of the tree
Substitutions(in) ==
  UNION { {e \in Range(n.expansion) : e.type = "CommandExpansion"} :
          n \in {m \in AstNodes(in) : m.type \in {"Word", "AssignmentWord"}} }

TaintingTypes == {"Subshell", "If", "For", "While", "Until", "Case", "Function"}

\* C2 taint completeness: for every input that parses, a command substitution
\* in a command name, an argument, an env-prefix assignment or a redirection
\* target, an explicit subshell or a control-flow construct makes hasSubshell
\* true, and the inner text of every command substitution is in
\* subshellCommands.
C2_TaintCompleteness ==
  (pc = "parsed" /\ Trim(input) # << >> /\ ~parsed.parseError /\ AstOf(input).ok) =>
    /\ (Substitutions(input) # {} \/ \E n \in AstNodes(input) : n.type \in TaintingTypes)
         => parsed.hasSubshell
    /\ \A e \in Substitutions(input) : e.command \in Range(parsed.subshellCommands)

\* C3 subshell promotion: with hasSubshell set and askOnSubshell enabled the
\* final decision is never allow, the empty list of invocations included.
C3_SubshellPromotion ==
  (pc = "done" /\ parsed.hasSubshell /\ Cfg(config).askOnSubshell) => final # "allow"

\* C4 fail-closed: when parseCommand returns parseError the final decision is
\* ask, whatever defaultDecision, askOnSubshell and hasSubshell are.
C4_FailClosed == (pc = "done" /\ parsed.parseError) => final = "ask"

\* a parse error under a configuration that allows by default and has
\* askOnSubshell off
C4_Witness ==
  /\ pc = "done" /\ parsed.parseError /\ final = "ask"
  /\ Cfg(config).defaultDecision = "allow" /\ ~Cfg(config).askOnSubshell

\* C5 parser totality: parseCommand never throws, and a result with parseError
\* has no commands and no subshellCommands.
C5_ParserTotality ==
  Parsed => /\ ~parsed.threw
            /\ parsed.parseError =>
                 (parsed.commands = << >> /\ parsed.subshellCommands = << >>)

\* the grammar rejects the input and the first line of the heredoc fallback
C5_Witness ==
  /\ pc = "parsed" /\ parsed.parseError /\ parsed.hasSubshell
  /\ ~AstOf(input).ok /\ CmdPart(FirstLine(preprocessCatHeredocs(input))) # << >>

(***************************************************************************)
(* Properties of the layers, of the wrappers and of the configuration      *)
(***************************************************************************)

GlobalDenyHit(text, cfg) == \E g \in cfg.globalDeny : RegexTest(g.pattern, text)

\* C6 layer precedence, when no global-deny pattern matches the input: a
\* command in alwaysDeny is denied even when it is in alwaysAllow or has a rule;
\* otherwise a command in alwaysAllow is allowed whatever its rule says; a rule
\* is consulted only after both lists, and defaultDecision only when no rule
\* names the command.
C6_LayerPrecedence ==
  (pc \in {"evaluated", "done"} /\ ~GlobalDenyHit(input, Cfg(config))) =>
    \A i \in DOMAIN details :
      LET cmd  == parsed.commands[i].command
          deny == cmd \in Cfg(config).alwaysDeny
          allw == cmd \in Cfg(config).alwaysAllow
          rule == \E k \in DOMAIN Cfg(config).rules : Cfg(config).rules[k].command = cmd
      IN  /\ deny => details[i].decision = "deny"
          /\ (~deny /\ allw) => details[i].decision = "allow"
          /\ details[i].layer = "rule" <=> (~deny /\ ~allw /\ rule)
          /\ details[i].layer = "default" <=> (~deny /\ ~allw /\ ~rule)
          /\ details[i].layer = "default" => details[i].decision = Cfg(config).defaultDecision

\* a command in both lists that also has a rule prescribing allow
C6_Witness ==
  /\ pc = "done" /\ ~GlobalDenyHit(input, Cfg(config))
  /\ \E i \in DOMAIN details :
       /\ parsed.commands[i].command \in Cfg(config).alwaysDeny \cap Cfg(config).alwaysAllow
       /\ \E k \in DOMAIN Cfg(config).rules :
            /\ Cfg(config).rules[k].command = parsed.commands[i].command
            /\ evaluateRule(Cfg(config).rules[k], parsed.commands[i]) = "allow"
       /\ details[i].decision = "deny"

\* the text holds a command substitution
RECURSIVE HasSubstitution(_)
HasSubstitution(x) ==
  /\ x # << >>
  /\ \/ x[1] = Backtick
     \/ (Len(x) >= 2 /\ x[1] = "$" /\ x[2] = "(")
     \/ HasSubstitution(Tail(x))

\* the command strings the wrapped inputs are made from
Wrappable == WrapCore \cup UNION {NestOf(NestCore, n) : n \in 0..(MaxNest - 1)}

\* the wrapped inputs, each with the wrapper and the command string it holds
WrapPairs == {<<Wrap(w, X), w, X>> : w \in Shells, X \in {Y \in Wrappable : ~HasSubstitution(Y)}}

\* C7 as stated: for every command string X without command substitution and
\* every wrapper w, the input w -c "X" gets the final decision of X under the
\* same configuration, also when X is empty, when X fails to parse and when
\* global-deny patterns are configured.
C7_WrapperTransparency ==
  pc = "done" =>
    \A p \in WrapPairs : input = p[1] => final = decide(p[3], Cfg(config))

\* C7 amended: for every command string X without command substitution that
\* parseCommand parses without parseError, every wrapper w and every
\* configuration whose global-deny patterns match w -c "X" exactly when they
\* match X, the input w -c "X" gets the final decision of X.
C7_WrapperTransparencyParsed ==
  pc = "done" =>
    \A p \in WrapPairs :
      ( /\ input = p[1]
        /\ ~parseCommand(p[3]).parseError
        /\ GlobalDenyHit(input, Cfg(config)) <=> GlobalDenyHit(p[3], Cfg(config)) )
      => final = decide(p[3], Cfg(config))

\* under the built-in defaults, whose rule for the wrapper is ask, a wrapped
\* command string is allowed as the string itself is
C7_Witness ==
  /\ pc = "done" /\ final = "allow"
  /\ config = [project |-> "none", user |-> "none"]
  /\ \E p \in WrapPairs :
       /\ input = p[1]
       /\ parseCommand(p[3]).commands # << >> /\ ~parseCommand(p[3]).parseError

\* C8 well-formed command: the command of every invocation of every parse
\* result is non-empty and holds no "/", and is the executable word itself
\* when that word holds no "/".
C8_WellFormedCommand ==
  Parsed =>
    \A i \in DOMAIN parsed.commands :
      LET c == parsed.commands[i]
      IN  /\ c.command # << >>
          /\ ~Includes(c.command, "/")
          /\ ~Includes(c.raw, "/") => c.raw = Join(c.envPrefixes \o <<c.command>> \o c.args)

\* the recursive and force flags are among the arguments of an invocation
RecursiveForce(c) ==
  \E a \in Range(c.args) :
    a # << >> /\ a[1] = "-" /\ Includes(a, "r") /\ Includes(a, "f")

\* C9 under the built-in defaults alone an rm invocation with the recursive and
\* force flags is denied: the final decision is deny.
C9_RmRfDenied ==
  ( /\ pc = "done" /\ config = [project |-> "none", user |-> "none"]
    /\ \E i \in DOMAIN parsed.commands :
         parsed.commands[i].command = W_rm /\ RecursiveForce(parsed.commands[i]) )
  => final = "deny"

\* the rules of a source that name a command
RulesNaming(rules, cmd) == {k \in DOMAIN rules : rules[k].command = cmd}

\* the rule the highest-priority source that names the command lists first
PriorityRule(cmd) ==
  LET project  == File(config.project).rules
      user     == File(config.user).rules
      defaults == LayerField(DEFAULT_CONFIG.layers, "rules")
  IN  IF RulesNaming(project, cmd) # {} THEN project[Min(RulesNaming(project, cmd))]
      ELSE IF RulesNaming(user, cmd) # {} THEN user[Min(RulesNaming(user, cmd))]
      ELSE defaults[Min(RulesNaming(defaults, cmd))]

\* C10 rule override by source priority: an invocation decided by a rule is
\* decided by the rule of the highest-priority source that has a rule for its
\* command, project over user over the built-in defaults.
C10_RuleOverride ==
  pc = "done" =>
    \A i \in DOMAIN details :
      details[i].layer = "rule" =>
        details[i].decision =
          evaluateRule(PriorityRule(parsed.commands[i].command), parsed.commands[i])

\* the project and the user both have a rule for the command and the user's
\* rule prescribes another decision
C10_Witness ==
  /\ pc = "done"
  /\ \E i \in DOMAIN details :
       LET cmd  == parsed.commands[i].command
           user == File(config.user).rules
       IN  /\ details[i].layer = "rule"
           /\ RulesNaming(File(config.project).rules, cmd) # {}
           /\ RulesNaming(user, cmd) # {}
           /\ evaluateRule(user[Min(RulesNaming(user, cmd))], parsed.commands[i])
                # details[i].decision

(***************************************************************************)
(* Properties of the built-in rules                                        *)
(***************************************************************************)

BuiltInOnly == config = [project |-> "none", user |-> "none"]

PkgManagers == {<<"n","p","m">>, <<"p","n","p","m">>, <<"y","a","r","n">>, <<"b","u","n">>}

\* C11 under the built-in defaults every npm, pnpm, yarn or bun invocation with
\* an argument equal to a registry operation is decided ask, also when another
\* argument is in the safe subcommand list.
C11_RegistryOpsAsk ==
  (pc = "done" /\ BuiltInOnly) =>
    \A i \in DOMAIN details :
      ( /\ parsed.commands[i].command \in PkgManagers
        /\ Range(parsed.commands[i].args) \cap Range(REGISTRY_OPS) # {} )
      => details[i].decision = "ask"

W_docker == <<"d","o","c","k","e","r">>

\* build, run, compose, exec, pull, stop, start, restart, create
StateChanging ==
  { <<"b","u","i","l","d">>, <<"r","u","n">>, <<"c","o","m","p","o","s","e">>,
    <<"e","x","e","c">>, <<"p","u","l","l">>, <<"s","t","o","p">>,
    <<"s","t","a","r","t">>, <<"r","e","s","t","a","r","t">>,
    <<"c","r","e","a","t","e">> }

\* C12 under the built-in defaults every docker invocation whose first argument
\* is a state-changing subcommand is decided ask, whatever its remaining
\* arguments are.
C12_DockerStateChangingAsk ==
  (pc = "done" /\ BuiltInOnly) =>
    \A i \in DOMAIN details :
      ( /\ parsed.commands[i].command = W_docker
        /\ parsed.commands[i].args # << >>
        /\ parsed.commands[i].args[1] \in StateChanging )
      => details[i].decision = "ask"

\* a force push, a hard reset or a clean, the flags in any position
GitDestructive(c) ==
  LET has(w) == w \in Range(c.args)
  IN  \/ has(<<"p","u","s","h">>) /\ (has(<<"-","-","f","o","r","c","e">>) \/ has(<<"-","f">>))
      \/ has(<<"r","e","s","e","t">>) /\ has(<<"-","-","h","a","r","d">>)
      \/ has(<<"c","l","e","a","n">>)

\* C13 under the built-in defaults every git invocation that is a force push,
\* a hard reset or a clean is decided ask, and so is a chain that holds it.
C13_GitDestructiveAsk ==
  (pc = "done" /\ BuiltInOnly) =>
    \A i \in DOMAIN details :
      (parsed.commands[i].command = W_git /\ GitDestructive(parsed.commands[i]))
      => (details[i].decision = "ask" /\ final = "ask")

(***************************************************************************)
(* Properties of the walk                                                  *)
(***************************************************************************)

\* the invocation is a wrapper call that walkNode unwraps
IsWrapperCall(c) == c.command \in Shells /\ Len(c.args) >= 2 /\ c.args[1] = <<"-","c">>

\* the invocation is among the commands, itself or as its unwrapped children
Emitted(c) ==
  IF IsWrapperCall(c) /\ ~parseCommand(c.args[2]).parseError
  THEN Range(parseCommand(c.args[2]).commands) \subseteq Range(parsed.commands)
  ELSE c \in Range(parsed.commands)

\* C14 no silent drop: every Command node with a name, anywhere in the syntax
\* tree the parser walks, is emitted as an invocation (itself or as its
\* unwrapped children) or the result has hasSubshell set.
C14_NoSilentDrop ==
  (pc = "parsed" /\ Trim(input) # << >> /\ AstOf(input).ok /\ ~parsed.parseError) =>
    \/ parsed.hasSubshell
    \/ \A n \in AstNodes(input) :
         (n.type = "Command" /\ n.name # << >>) => Emitted(convertCommand(n)[1])

\* parseCommand detects a heredoc redirect: a dless or dlessdash node in the
\* syntax tree, or the heredoc regex after the top-level parse throws
HeredocDetected(in) ==
  /\ Trim(in) # << >>
  /\ IF AstOf(in).ok THEN astHasHeredoc(AstOf(in).ast)
     ELSE RegexTest(HEREDOC_REGEX, preprocessCatHeredocs(in))

\* C15 heredoc taint: whenever parseCommand detects a heredoc redirect the
\* result has hasSubshell set, with the commands of the stripped first line
\* when its re-parse succeeds and with parseError when the stripped first line
\* is empty or fails to parse.
C15_HeredocTaint ==
  (pc = "parsed" /\ HeredocDetected(input)) =>
    /\ parsed.hasSubshell
    /\ ~parsed.parseError =>
         parsed.commands =
           parseCommand(CmdPart(FirstLine(preprocessCatHeredocs(input)))).commands

\* the invocation of the wrapper w with the arguments -c and X
WrapperInvocation(w, X) ==
  [command |-> w, args |-> << <<"-","c">>, X >>, envPrefixes |-> << >>,
   raw |-> Join(<<w, <<"-","c">>, X>>)]

\* shell invocations that are no unwrapped wrapper call: sh, bash --version,
\* sh -c, bash -x -c ls
OtherShellInputs ==
  { <<"s","h">>, <<"b","a","s","h"," ","-","-","v","e","r","s","i","o","n">>,
    <<"s","h"," ","-","c">>, <<"b","a","s","h"," ","-","x"," ","-","c"," ","l","s">> }

\* C16 wrapper unwrap: the invocations of the child take the wrapper's place, in
\* order, the parent's hasSubshell is or-ed with the child's and the child's
\* subshellCommands are appended; when the child reports parseError the wrapper
\* is emitted as one invocation and the parent's parseError stays false; any
\* other sh, bash or zsh invocation is emitted unchanged.
C16_WrapperUnwrap ==
  pc = "parsed" =>
    /\ \A p \in Sandwiches :
         input = p.input =>
           LET left  == parseCommand(p.left)
               child == parseCommand(p.X)
               right == parseCommand(p.right)
           IN  /\ ~parsed.parseError
               /\ IF child.parseError
                  THEN /\ parsed.commands =
                            left.commands \o <<WrapperInvocation(p.w, p.X)>> \o right.commands
                       /\ parsed.hasSubshell = left.hasSubshell
                       /\ parsed.subshellCommands = left.subshellCommands
                  ELSE /\ parsed.commands =
                            left.commands \o child.commands \o right.commands
                       /\ parsed.hasSubshell = (left.hasSubshell \/ child.hasSubshell)
                       /\ parsed.subshellCommands =
                            left.subshellCommands \o child.subshellCommands
    /\ input \in OtherShellInputs =>
         /\ Len(parsed.commands) = 1
         /\ parsed.commands[1].command \in Shells
         /\ parsed.commands[1].raw = input
         /\ ~parsed.hasSubshell /\ ~parsed.parseError

\* a wrapper in the middle of a chain whose child has invocations and a taint
\* the parent did not have
C16_Witness ==
  /\ pc = "parsed"
  /\ \E p \in Sandwiches :
       /\ input = p.input
       /\ ~parseCommand(p.X).parseError
       /\ parseCommand(p.X).commands # << >>
       /\ parseCommand(p.X).hasSubshell /\ ~parseCommand(p.left).hasSubshell
       /\ parsed.hasSubshell

(***************************************************************************)
(* The nested calls of parseCommand, one step per call and per return.     *)
(* calls is the call stack, the outermost call first; a frame holds the    *)
(* string the call parses and the re-entries it has still to make.         *)
(***************************************************************************)

\* the deepest call stack followed
MaxDepth == MaxNest + 2

\* the commands of the stripped first line, when it parses
FirstLineNodes(in) ==
  IF CmdPart(FirstLine(in)) = << >> \/ ~parse(CmdPart(FirstLine(in))).ok THEN << >>
  ELSE parse(CmdPart(FirstLine(in))).ast.commands

\* the top-level nodes parseCommand walks for the preprocessed input
WalkedNodes(in) ==
  IF parse(in).ok
  THEN (IF astHasHeredoc(parse(in).ast) THEN FirstLineNodes(in) ELSE parse(in).ast.commands)
  ELSE IF RegexTest(HEREDOC_REGEX, in) THEN FirstLineNodes(in)
  ELSE << >>

\* the strings walkNode re-enters parseCommand on, in the order of the walk
RECURSIVE ReentryArgs(_)
ReentryArgs(nodes) ==
  IF nodes = << >> THEN << >>
  ELSE (CASE nodes[1].type = "Command" ->
               IF convertCommand(nodes[1]) # << >> /\ IsWrapperCall(convertCommand(nodes[1])[1])
               THEN <<UnwrapArg(convertCommand(nodes[1])[1])>> ELSE << >>
          [] nodes[1].type = "Pipeline" -> ReentryArgs(nodes[1].commands)
          [] nodes[1].type = "LogicalExpression" ->
               ReentryArgs(<<nodes[1].left, nodes[1].right>>)
          [] nodes[1].type = "Subshell" -> ReentryArgs(nodes[1].list.commands)
          [] OTHER -> << >>)
       \o ReentryArgs(Tail(nodes))

\* the re-entries one call of parseCommand makes
Reentries(in) ==
  IF Trim(in) = << >> THEN << >> ELSE ReentryArgs(WalkedNodes(preprocessCatHeredocs(in)))

\* the strings the calls of a set of strings re-enter on
Reentered(S) == UNION {Range(Reentries(x)) : x \in S}

\* the strings of the first n levels of the calls made from the strings S
RECURSIVE CallStrings(_, _)
CallStrings(S, n) ==
  IF n = 0 \/ S = {} THEN {} ELSE S \cup CallStrings(Reentered(S), n - 1)

\* the re-entries of every call
ReentriesOf == [x \in CallStrings(Inputs, MaxDepth) |-> Reentries(x)]

Frame(in) == [string |-> in, pending |-> ReentriesOf[in]]

UnwrapInit ==
  /\ pc = "enter"
  /\ input \in Inputs
  /\ calls = << >>
  /\ sources = [project |-> "none", user |-> "none"]
  /\ config = None
  /\ parsed = None
  /\ details = << >>
  /\ final = "none"

\* the handler calls parseCommand on the command string
Enter ==
  /\ pc = "enter"
  /\ calls' = <<Frame(input)>>
  /\ pc' = "call"
  /\ UNCHANGED <<input, sources, config, parsed, details, final>>

\* the innermost call reaches a wrapper and re-enters parseCommand
Reenter ==
  /\ pc = "call"
  /\ Len(calls) < MaxDepth
  /\ calls[Len(calls)].pending # << >>
  /\ calls' = Append([calls EXCEPT ![Len(calls)].pending = Tail(@)],
                     Frame(Head(calls[Len(calls)].pending)))
  /\ UNCHANGED <<pc, input, sources, config, parsed, details, final>>

\* the innermost call has no re-entry left and returns its result
Return ==
  /\ pc = "call"
  /\ calls[Len(calls)].pending = << >>
  /\ calls' = SubSeq(calls, 1, Len(calls) - 1)
  /\ pc' = IF Len(calls) = 1 THEN "returned" ELSE "call"
  /\ UNCHANGED <<input, sources, config, parsed, details, final>>

UnwrapNext == Enter \/ Reenter \/ Return

\* a call in progress goes on: the program is sequential
UnwrapSpec == UnwrapInit /\ [][UnwrapNext]_vars /\ WF_vars(UnwrapNext)

\* the number of occurrences of a character
RECURSIVE Count(_, _)
Count(x, c) ==
  IF x = << >> THEN 0 ELSE (IF x[1] = c THEN 1 ELSE 0) + Count(Tail(x), c)

\* what every re-entry makes smaller: the length, each "c" counted as a whole
\* placeholder, since the preprocessor puts a placeholder in place of a
\* $(cat <<M...M) and a re-entry leaves out at least the wrapper and its -c
Measure(x) == Len(x) + Len(HEREDOC_TEXT) * Count(x, "c")

ChainDecreases ==
  \A k \in 2..Len(calls) : Measure(calls[k].string) < Measure(calls[k - 1].string)

\* C17 bounded recursion: every re-entry of parseCommand is made on a string
\* smaller than the one its parent parsed, never on the same string, and the
\* chain of nested calls ends: the outermost call returns.
C17_BoundedRecursion == []ChainDecreases /\ <>(pc = "returned")

\* a re-entry inside a re-entry, the first of them on a string longer than
\* the string its parent was called on
C17_Witness ==
  /\ pc = "call"
  /\ Len(calls) >= 3
  /\ Len(calls[2].string) > Len(calls[1].string)

====
